---- MODULE Spec2Model ----
(***************************************************************************)
(* Model of the Finscreener API client (src/api_client.py): the credential *)
(* exchange of FinscreenerClient._ensure_jwt_token, the request pipeline   *)
(* of FinscreenerClient.request and the shared rate-limit snapshot; the    *)
(* url of a request and format_response, each applied on its own; the      *)
(* order and screener tools (src/tools) that validate their arguments or   *)
(* read before they write.                                                 *)
(*                                                                         *)
(* Python values are tagged records: None is [t |-> "null"], a str is      *)
(* [t |-> "str", s |-> <<characters>>], a dict is [t |-> "obj", f |-> fn], *)
(* and so on, so that the duck-typed tests of the source (truthiness,      *)
(* isinstance, .get on a non-dict) can be evaluated on them.               *)
(*                                                                         *)
(* The coroutines of the asyncio event loop run to their next await        *)
(* without interleaving; each action below is one such run.                *)
(***************************************************************************)
EXTENDS Integers, Sequences, FiniteSets, TLC

VARIABLES
    api_key,            \* self.api_key: tuple of characters
    jwt_token,          \* self._jwt_token: None or str
    token_expires_at,   \* self._token_expires_at: None or datetime
    rate_limit_info,    \* self._rate_limit_info
    clock,              \* datetime.now(timezone.utc), in minutes
    pc,                 \* per invocation of request(): where its coroutine waits
    headers,            \* per invocation: the headers of its primary call, or None
    exchange,           \* per invocation: outcome of its auth/login call, or None
    response,           \* per invocation: outcome of its primary call, or None
    result,             \* per invocation: the value request() returned, or None
    raised,             \* per invocation: an exception left request()
    nExchange,          \* per invocation: auth/login calls issued
    nPrimary,           \* per invocation: primary calls issued
    api_base,           \* self.api_base: tuple of characters
    endpoint,           \* request(): the endpoint argument, or None
    use_api_prefix,     \* request(): the use_api_prefix argument
    url,                \* request(): the url of the primary call, or None
    fmt_data,           \* format_response(): the data argument
    fmt_title,          \* format_response(): the title argument
    fmt_output,         \* format_response(): the text returned, or None
    tool,               \* the tool of src/tools that was called, or "none"
    args,               \* the arguments it was called with
    frame,              \* its local variables, the parameters among them
    tool_pc,            \* where its coroutine waits
    calls,              \* the calls of the client it has issued, in order
    returned,           \* the text it returned, or None
    tool_raised         \* an exception left it

\* A tool of src/tools: its coroutine, the calls it awaits, what it returns
tool_vars == <<tool, args, frame, tool_pc, calls, returned, tool_raised>>

\* The arguments and return values of the functions that are applied on
\* their own: the url of request(), format_response() and the tools.
function_vars == <<api_base, endpoint, use_api_prefix, url,
                   fmt_data, fmt_title, fmt_output, tool_vars>>

vars == <<api_key, jwt_token, token_expires_at, rate_limit_info, clock, pc,
          headers, exchange, response, result, raised, nExchange, nPrimary,
          function_vars>>

-----------------------------------------------------------------------------
(* Bounds *)

MaxClock == 70          \* the clock stops here
TickMinutes == 5        \* the clock is sampled every TickMinutes minutes

Invocations == {1, 2}   \* request() coroutines that may be in flight together

-----------------------------------------------------------------------------
(* Python and JSON values; a str is its tuple of characters *)

PyNone == [t |-> "null"]
PyStr(s) == [t |-> "str", s |-> s]
PyInt(n) == [t |-> "int", n |-> n]
PyBool(b) == [t |-> "bool", b |-> b]
Dict(f) == [t |-> "obj", f |-> f]
PyList(q) == [t |-> "list", q |-> q]
DateTime(m) == [t |-> "datetime", m |-> m]
Undecodable == [t |-> "undecodable"]

EmptyDict == Dict(<<>>)

IsDict(v) == v.t = "obj"

Truthy(v) ==
    CASE v.t = "null" -> FALSE
      [] v.t = "str" -> v.s # <<>>
      [] v.t = "int" -> v.n # 0
      [] v.t = "bool" -> v.b
      [] v.t = "obj" -> DOMAIN v.f # {}
      [] v.t = "list" -> v.q # <<>>
      [] OTHER -> TRUE

Get(d, k, default) == IF k \in DOMAIN d.f THEN d.f[k] ELSE default

StartsWith(s, prefix) ==
    /\ Len(s) >= Len(prefix)
    /\ SubSeq(s, 1, Len(prefix)) = prefix

Contains(s, sub) ==
    \E i \in 0..(Len(s) - Len(sub)) : SubSeq(s, i + 1, i + Len(sub)) = sub

Digit == <<"0", "1", "2", "3", "4", "5", "6", "7", "8", "9">>

RECURSIVE Digits(_)
Digits(n) ==
    IF n < 10 THEN <<Digit[n + 1]>>
    ELSE Digits(n \div 10) \o <<Digit[(n % 10) + 1]>>

\* str(v), as an f-string renders v. Containers are rendered when empty;
\* no body drawn below puts a non-empty one into a message.
Format(v) ==
    CASE v.t = "str" -> v.s
      [] v.t = "int" -> Digits(v.n)
      [] v.t = "null" -> <<"N", "o", "n", "e">>
      [] v.t = "bool" -> IF v.b THEN <<"T", "r", "u", "e">>
                         ELSE <<"F", "a", "l", "s", "e">>
      [] v.t = "obj" /\ DOMAIN v.f = {} -> <<"{", "}">>
      [] v.t = "list" /\ v.q = <<>> -> <<"[", "]">>

-----------------------------------------------------------------------------
(* String literals of the source *)

S_RateLimitExceededColon ==
    <<"R", "a", "t", "e", " ", "l", "i", "m", "i", "t", " ", "e", "x", "c",
    "e", "e", "d", "e", "d", ":", " ">>

S_DailyLimitReached ==
    <<"D", "a", "i", "l", "y", " ", "l", "i", "m", "i", "t", " ", "r", "e",
    "a", "c", "h", "e", "d">>

S_EndOfDay ==
    <<"E", "n", "d", " ", "o", "f", " ", "d", "a", "y">>

S_RateLimitGeneric ==
    <<"R", "a", "t", "e", " ", "l", "i", "m", "i", "t", " ", "e", "x", "c",
    "e", "e", "d", "e", "d", ".", " ", "T", "r", "y", " ", "a", "g", "a", "i",
    "n", " ", "t", "o", "m", "o", "r", "r", "o", "w", ".">>

S_ApiError ==
    <<"A", "P", "I", " ", "E", "r", "r", "o", "r", " ", "(">>

S_CloseColon ==
    <<")", ":", " ">>

S_TimedOut ==
    <<"R", "e", "q", "u", "e", "s", "t", " ", "t", "i", "m", "e", "d", " ",
    "o", "u", "t", ".", " ", "T", "r", "y", " ", "w", "i", "t", "h", " ", "a",
    " ", "s", "i", "m", "p", "l", "e", "r", " ", "q", "u", "e", "r", "y",
    ".">>

S_RequestFailed ==
    <<"R", "e", "q", "u", "e", "s", "t", " ", "f", "a", "i", "l", "e", "d",
    ":", " ">>

S_UnexpectedError ==
    <<"U", "n", "e", "x", "p", "e", "c", "t", "e", "d", " ", "e", "r", "r",
    "o", "r", ":", " ">>

S_Bearer ==
    <<"B", "e", "a", "r", "e", "r", " ">>

S_ApplicationJson ==
    <<"a", "p", "p", "l", "i", "c", "a", "t", "i", "o", "n", "/", "j", "s",
    "o", "n">>

-----------------------------------------------------------------------------
(* Configuration *)

FskPrefix == <<"f", "s", "k", "_">>

\* FINSCREENER_API_KEY: unset, an exchangeable key, an already issued token,
\* and a value that shares the first characters of the prefix only.
ApiKeys == { <<>>,
             <<"f", "s", "k", "_", "1">>,
             <<"e", "y", "J">>,
             <<"f", "s", "k">> }

JwtA == PyStr(<<"j", "A">>)
JwtB == PyStr(<<"j", "B">>)

-----------------------------------------------------------------------------
(* Outcomes of a network call: a response, or an exception of httpx *)

Response(status_code, text, json) ==
    [kind |-> "response", status_code |-> status_code, text |-> text, json |-> json]
Raises(exception, description) ==
    [kind |-> exception, description |-> description]

\* httpx: the timeouts are RequestErrors too (TimeoutException is a
\* TransportError, which is a RequestError).
IsTimeoutException(exc) == exc \in {"ConnectTimeout", "ReadTimeout"}
IsRequestError(exc) == IsTimeoutException(exc) \/ exc \in {"ConnectError"}

\* response.json(): the decoded body, or the exception it raises
Json(r) == r.json
JsonRaises(r) == r.json = Undecodable

\* Answers of POST /api/auth/login
ExchangeOutcomes ==
    { Response(200, PyStr(<<"t">>), Dict([access_token |-> JwtA])),
      Response(200, PyStr(<<"t">>), Dict([token |-> Dict([access_token |-> JwtB])])),
      Response(200, PyStr(<<"t">>), Dict([message |-> PyStr(<<"o", "k">>)])),
      Response(200, PyStr(<<"t">>), Dict([token |-> EmptyDict])),
      Response(200, PyStr(<<"t">>), Dict([token |-> JwtA])),
      Response(200, PyStr(<<"t">>), Dict([access_token |-> PyStr(<<>>)])),
      Response(200, PyStr(<<"t">>), Dict([access_token |-> PyNone])),
      Response(200, PyStr(<<"t">>), PyList(<<JwtA>>)),
      Response(200, PyStr(<<"t">>), Undecodable),
      Response(401, PyStr(<<"t">>), Dict([detail |-> PyStr(<<"b", "a", "d">>)])),
      Response(500, PyStr(<<"t">>), Undecodable),
      Raises("ReadTimeout", <<"s", "l", "o", "w">>),
      Raises("ConnectError", <<"d", "n", "s">>) }

-----------------------------------------------------------------------------
(* Credential manager: FinscreenerClient._ensure_jwt_token *)

Minute(now) == now % 60

\* Line 76: the refresh horizon
RefreshMinutes == 50

\* Lines 75-77: datetime.now(timezone.utc).replace(minute=<minute now> + 50).
\* replace() accepts a minute in 0..59 and keeps the hour and the day.
ReplaceMinuteRaises(now) == Minute(now) + RefreshMinutes > 59
ReplaceMinute(now) ==
    DateTime((now - Minute(now)) + (Minute(now) + RefreshMinutes))

\* TokenValid with the comparison turned around
TokenValid_reversed(jwt, expires, now) ==
    /\ Truthy(jwt)
    /\ Truthy(expires)
    /\ now > expires.m

\* Lines 48-50: the held token is good, nothing to do.
TokenValid(jwt, expires, now) ==
    /\ Truthy(jwt)
    /\ Truthy(expires)
    /\ now < expires.m

\* EnsureBranch without the pass-through test of line 55
EnsureBranch_always_exchange(key, jwt, expires, now) ==
    IF TokenValid(jwt, expires, now) THEN "valid"
    ELSE IF key = <<>> THEN "no_key"
    ELSE "exchange"

\* Lines 47-58, the part of _ensure_jwt_token before its await:
\* what it decides to do with the state it finds.
EnsureBranch(key, jwt, expires, now) ==
    IF TokenValid(jwt, expires, now) THEN "valid"
    ELSE IF key = <<>> THEN "no_key"
    ELSE IF ~StartsWith(key, FskPrefix) THEN "pass_through"
    ELSE "exchange"

\* ExchangeTry computing the expiry before it stores the token
ExchangeTry_expiry_first(jwt, expires, outcome, now) ==
    LET same(exc) == [jwt |-> jwt, expires |-> expires, exc |-> exc] IN
    IF outcome.kind # "response" THEN same(outcome.kind)
    ELSE IF outcome.status_code # 200 THEN same("none")
    ELSE IF JsonRaises(outcome) THEN same("JSONDecodeError")
    ELSE IF ~IsDict(Json(outcome)) THEN same("AttributeError")
    ELSE
      LET data == Json(outcome)
          token_data == Get(data, "token", data)
      IN IF ~IsDict(token_data) THEN same("AttributeError")
         ELSE
           LET access_token == Get(token_data, "access_token", PyNone) IN
           IF ReplaceMinuteRaises(now) THEN same("ValueError")
           ELSE IF ~Truthy(access_token)
             THEN [jwt |-> access_token, expires |-> expires, exc |-> "none"]
           ELSE [jwt |-> access_token, expires |-> ReplaceMinute(now), exc |-> "none"]

\* Lines 62-86, the body of the try block once client.post has returned or
\* raised: the new token state and the exception raised in the block, if any.
ExchangeTry(jwt, expires, outcome, now) ==
    LET same(exc) == [jwt |-> jwt, expires |-> expires, exc |-> exc] IN
    IF outcome.kind # "response" THEN same(outcome.kind)
    ELSE IF outcome.status_code # 200 THEN same("none")
    ELSE IF JsonRaises(outcome) THEN same("JSONDecodeError")
    ELSE IF ~IsDict(Json(outcome)) THEN same("AttributeError")
    ELSE
      LET data == Json(outcome)
          token_data == Get(data, "token", data)
      IN IF ~IsDict(token_data) THEN same("AttributeError")
         ELSE
           LET access_token == Get(token_data, "access_token", PyNone) IN
           IF ~Truthy(access_token)
             THEN [jwt |-> access_token, expires |-> expires, exc |-> "none"]
           ELSE IF ReplaceMinuteRaises(now)
             THEN [jwt |-> access_token, expires |-> expires, exc |-> "ValueError"]
           ELSE [jwt |-> access_token, expires |-> ReplaceMinute(now), exc |-> "none"]

\* EnsureCatches as `except ValueError` would have it
EnsureCatches_ValueError(exc) == exc \in {"ValueError", "JSONDecodeError"}

\* Lines 87-88: `except Exception` takes every exception of the block.
EnsureCatches(exc) == TRUE

\* GetHeaders that formats the token into the header without testing it
GetHeaders_untested(jwt) ==
    Dict(("Content-Type" :> PyStr(S_ApplicationJson))
         @@ ("Accept" :> PyStr(S_ApplicationJson))
         @@ ("Authorization" :> PyStr(S_Bearer \o Format(jwt))))

\* Lines 90-98: _get_headers
GetHeaders(jwt) ==
    LET h == ("Content-Type" :> PyStr(S_ApplicationJson))
             @@ ("Accept" :> PyStr(S_ApplicationJson))
    IN IF Truthy(jwt)
         THEN Dict(h @@ ("Authorization" :> PyStr(S_Bearer \o Format(jwt))))
         ELSE Dict(h)

-----------------------------------------------------------------------------
(* Answers of the upstream API to the primary call *)

Ok_Data ==
    Response(200, PyStr(<<"{", "\"", "d", "a", "t", "a", "\"", ":", "[", "{",
    "\"", "C", "I", "N", "\"", ":", "\"", "X", "\"", ",", "\"", "c", "o", "m",
    "p", "a", "n", "y", "\"", ":", "\"", "A", "c", "m", "e", "\"", "}", "]",
    "}">>), Dict([data |-> PyList(<<Dict([CIN |-> PyStr(<<"X">>), company |->
    PyStr(<<"A", "c", "m", "e">>)])>>)]))

Ok_RateLimit1 ==
    Response(200, PyStr(<<"{", "\"", "d", "a", "t", "a", "\"", ":", "[", "]",
    ",", "\"", "r", "a", "t", "e", "_", "l", "i", "m", "i", "t", "\"", ":",
    "{", "\"", "l", "i", "m", "i", "t", "\"", ":", "1", "0", "0", ",", "\"",
    "u", "s", "e", "d", "\"", ":", "1", "}", "}">>), Dict([data |->
    PyList(<<>>), rate_limit |-> Dict([limit |-> PyInt(100), used |->
    PyInt(1)])]))

Ok_RateLimit2 ==
    Response(200, PyStr(<<"{", "\"", "r", "a", "t", "e", "_", "l", "i", "m",
    "i", "t", "\"", ":", "{", "\"", "l", "i", "m", "i", "t", "\"", ":", "1",
    "0", "0", ",", "\"", "u", "s", "e", "d", "\"", ":", "2", "}", "}">>),
    Dict([rate_limit |-> Dict([limit |-> PyInt(100), used |-> PyInt(2)])]))

Ok_List ==
    Response(200, PyStr(<<"[", "1", "]">>), PyList(<<PyInt(1)>>))

Ok_Undecodable ==
    Response(200, PyStr(<<"<", "h", "t", "m", "l", ">">>), Undecodable)

R429_Snake ==
    Response(429, PyStr(<<"{", "\"", "d", "e", "t", "a", "i", "l", "\"", ":",
    "{", "\"", "m", "e", "s", "s", "a", "g", "e", "\"", ":", "\"", "Q", "u",
    "o", "t", "a", "\"", ",", "\"", "l", "i", "m", "i", "t", "\"", ":", "5",
    "0", ",", "\"", "u", "s", "e", "d", "\"", ":", "5", "1", ",", "\"", "r",
    "e", "s", "e", "t", "s", "_", "a", "t", "\"", ":", "\"", "2", "0", "2",
    "4", "Z", "\"", "}", "}">>), Dict([detail |-> Dict([message |->
    PyStr(<<"Q", "u", "o", "t", "a">>), limit |-> PyInt(50), used |->
    PyInt(51), resets_at |-> PyStr(<<"2", "0", "2", "4", "Z">>)])]))

R429_Camel ==
    Response(429, PyStr(<<"{", "\"", "d", "e", "t", "a", "i", "l", "\"", ":",
    "{", "\"", "m", "e", "s", "s", "a", "g", "e", "\"", ":", "\"", "D", "a",
    "i", "l", "y", " ", "l", "i", "m", "i", "t", " ", "r", "e", "a", "c", "h",
    "e", "d", "\"", ",", "\"", "l", "i", "m", "i", "t", "\"", ":", "1", "0",
    "0", ",", "\"", "u", "s", "e", "d", "\"", ":", "1", "0", "0", ",", "\"",
    "r", "e", "s", "e", "t", "s", "A", "t", "\"", ":", "\"", "2", "0", "2",
    "4", "-", "0", "1", "-", "0", "2", "T", "0", "0", ":", "0", "0", ":", "0",
    "0", "Z", "\"", "}", "}">>), Dict([detail |-> Dict([message |->
    PyStr(<<"D", "a", "i", "l", "y", " ", "l", "i", "m", "i", "t", " ", "r",
    "e", "a", "c", "h", "e", "d">>), limit |-> PyInt(100), used |->
    PyInt(100), resetsAt |-> PyStr(<<"2", "0", "2", "4", "-", "0", "1", "-",
    "0", "2", "T", "0", "0", ":", "0", "0", ":", "0", "0", "Z">>)])]))

R429_NoDetail ==
    Response(429, PyStr(<<"{", "}">>), EmptyDict)

R429_DetailStr ==
    Response(429, PyStr(<<"{", "\"", "d", "e", "t", "a", "i", "l", "\"", ":",
    "\"", "s", "l", "o", "w", "\"", "}">>), Dict([detail |-> PyStr(<<"s", "l",
    "o", "w">>)]))

R429_Undecodable ==
    Response(429, PyStr(<<"T", "o", "o", " ", "M", "a", "n", "y">>),
    Undecodable)

R429_RateLimit ==
    Response(429, PyStr(<<"{", "\"", "d", "e", "t", "a", "i", "l", "\"", ":",
    "{", "\"", "u", "s", "e", "d", "\"", ":", "7", "}", ",", "\"", "r", "a",
    "t", "e", "_", "l", "i", "m", "i", "t", "\"", ":", "{", "\"", "l", "i",
    "m", "i", "t", "\"", ":", "1", "0", "0", ",", "\"", "u", "s", "e", "d",
    "\"", ":", "7", "}", "}">>), Dict([detail |-> Dict([used |-> PyInt(7)]),
    rate_limit |-> Dict([limit |-> PyInt(100), used |-> PyInt(7)])]))

R404_Detail ==
    Response(404, PyStr(<<"{", "\"", "d", "e", "t", "a", "i", "l", "\"", ":",
    "\"", "n", "o", "t", " ", "f", "o", "u", "n", "d", "\"", "}">>),
    Dict([detail |-> PyStr(<<"n", "o", "t", " ", "f", "o", "u", "n", "d">>)]))

R500_Message ==
    Response(500, PyStr(<<"{", "\"", "m", "e", "s", "s", "a", "g", "e", "\"",
    ":", "\"", "b", "o", "o", "m", "\"", "}">>), Dict([message |->
    PyStr(<<"b", "o", "o", "m">>)]))

R500_Undecodable ==
    Response(500, PyStr(<<"o", "o", "p", "s">>), Undecodable)

R401_NoField ==
    Response(401, PyStr(<<"{", "\"", "c", "o", "d", "e", "\"", ":", "7",
    "}">>), Dict([code |-> PyInt(7)]))

R503_RateLimit ==
    Response(503, PyStr(<<"{", "\"", "d", "e", "t", "a", "i", "l", "\"", ":",
    "\"", "d", "o", "w", "n", "\"", ",", "\"", "r", "a", "t", "e", "_", "l",
    "i", "m", "i", "t", "\"", ":", "{", "\"", "l", "i", "m", "i", "t", "\"",
    ":", "1", "0", "0", ",", "\"", "u", "s", "e", "d", "\"", ":", "9", "}",
    "}">>), Dict([detail |-> PyStr(<<"d", "o", "w", "n">>), rate_limit |->
    Dict([limit |-> PyInt(100), used |-> PyInt(9)])]))


R400_Both ==
    Response(400, PyStr(<<"{", "\"", "d", "e", "t", "a", "i", "l", "\"", ":",
    "\"", "b", "a", "d", " ", "c", "i", "n", "\"", ",", "\"", "m", "e", "s",
    "s", "a", "g", "e", "\"", ":", "\"", "i", "n", "v", "a", "l", "i", "d",
    "\"", "}">>), Dict([detail |-> PyStr(<<"b", "a", "d", " ", "c", "i",
    "n">>), message |-> PyStr(<<"i", "n", "v", "a", "l", "i", "d">>)]))

R422_List ==
    Response(422, PyStr(<<"[", "\"", "c", "i", "n", " ", "r", "e", "q", "u",
    "i", "r", "e", "d", "\"", "]">>), PyList(<<PyStr(<<"c", "i", "n", " ",
    "r", "e", "q", "u", "i", "r", "e", "d">>)>>))

R500_DetailNull ==
    Response(500, PyStr(<<"{", "\"", "d", "e", "t", "a", "i", "l", "\"", ":",
    "n", "u", "l", "l", ",", "\"", "m", "e", "s", "s", "a", "g", "e", "\"",
    ":", "\"", "b", "o", "o", "m", "\"", "}">>), Dict([detail |-> PyNone,
    message |-> PyStr(<<"b", "o", "o", "m">>)]))

R429_List ==
    Response(429, PyStr(<<"[", "\"", "s", "l", "o", "w", "\"", "]">>),
    PyList(<<PyStr(<<"s", "l", "o", "w">>)>>))

PrimaryOutcomes ==
    { Ok_Data, Ok_RateLimit1, Ok_RateLimit2, Ok_List, Ok_Undecodable,
      R429_Snake, R429_Camel, R429_NoDetail, R429_DetailStr, R429_Undecodable,
      R429_RateLimit, R404_Detail, R500_Message, R500_Undecodable,
      R401_NoField, R503_RateLimit, R400_Both, R422_List, R500_DetailNull,
      R429_List,
      Raises("ReadTimeout", <<"s", "l", "o", "w">>),
      Raises("ConnectError", <<"r", "e", "f", "u", "s", "e", "d">>),
      Raises("InvalidURL", <<"u", "r", "l">>) }

-----------------------------------------------------------------------------
(* Request executor: FinscreenerClient.request *)

Failure(error) == Dict([success |-> PyBool(FALSE), error |-> PyStr(error)])

\* RateLimited reading the reset time under the key `resetsAt`
RateLimited_resetsAt(r) ==
    IF JsonRaises(r) \/ ~IsDict(Json(r)) THEN Failure(S_RateLimitGeneric)
    ELSE
      LET detail == Get(Json(r), "detail", EmptyDict) IN
      IF ~IsDict(detail) THEN Failure(S_RateLimitGeneric)
      ELSE Dict([success |-> PyBool(FALSE),
                 error |-> PyStr(S_RateLimitExceededColon
                     \o Format(Get(detail, "message", PyStr(S_DailyLimitReached)))),
                 rate_limit |-> Dict([
                     limit |-> Get(detail, "limit", PyInt(100)),
                     used |-> Get(detail, "used", PyInt(100)),
                     resets_at |-> Get(detail, "resetsAt", PyStr(S_EndOfDay))])])

\* Lines 149-163: a 429 answer
RateLimited(r) ==
    IF JsonRaises(r) \/ ~IsDict(Json(r)) THEN Failure(S_RateLimitGeneric)
    ELSE
      LET detail == Get(Json(r), "detail", EmptyDict) IN
      IF ~IsDict(detail) THEN Failure(S_RateLimitGeneric)
      ELSE Dict([success |-> PyBool(FALSE),
                 error |-> PyStr(S_RateLimitExceededColon
                     \o Format(Get(detail, "message", PyStr(S_DailyLimitReached)))),
                 rate_limit |-> Dict([
                     limit |-> Get(detail, "limit", PyInt(100)),
                     used |-> Get(detail, "used", PyInt(100)),
                     resets_at |-> Get(detail, "resets_at", PyStr(S_EndOfDay))])])

\* ErrorDetail that looks for `message` before `detail`
ErrorDetail_message_first(r) ==
    IF JsonRaises(r) \/ ~IsDict(Json(r)) THEN r.text
    ELSE Get(Json(r), "message", Get(Json(r), "detail", r.text))

\* Lines 166-176: any other answer with status >= 400
ErrorDetail(r) ==
    IF JsonRaises(r) \/ ~IsDict(Json(r)) THEN r.text
    ELSE Get(Json(r), "detail", Get(Json(r), "message", r.text))

HttpError(r) ==
    Failure(S_ApiError \o Digits(r.status_code) \o S_CloseColon
            \o Format(ErrorDetail(r)))

\* StoreRateLimit storing the whole body instead of its rate_limit field
StoreRateLimit_body(result_, snapshot) ==
    IF IsDict(result_) /\ "rate_limit" \in DOMAIN result_.f
      THEN result_
      ELSE snapshot

\* Lines 180-182: store rate limit info if present
StoreRateLimit(result_, snapshot) ==
    IF IsDict(result_) /\ "rate_limit" \in DOMAIN result_.f
      THEN result_.f["rate_limit"]
      ELSE snapshot

\* RequestTry storing the rate-limit info of error bodies too
RequestTry_store_on_error(outcome, snapshot) ==
    IF outcome.kind # "response"
      THEN [ret |-> PyNone, snapshot |-> snapshot, exc |-> outcome.kind,
            description |-> outcome.description]
    ELSE IF outcome.status_code = 429
      THEN [ret |-> RateLimited(outcome),
            snapshot |-> IF JsonRaises(outcome) THEN snapshot
                         ELSE StoreRateLimit(Json(outcome), snapshot),
            exc |-> "none", description |-> <<>>]
    ELSE IF outcome.status_code >= 400
      THEN [ret |-> HttpError(outcome),
            snapshot |-> IF JsonRaises(outcome) THEN snapshot
                         ELSE StoreRateLimit(Json(outcome), snapshot),
            exc |-> "none", description |-> <<>>]
    ELSE IF JsonRaises(outcome)
      THEN [ret |-> PyNone, snapshot |-> snapshot, exc |-> "JSONDecodeError",
            description |-> <<"E", "x", "p", "e", "c", "t", "i", "n", "g">>]
    ELSE
      [ret |-> Json(outcome),
       snapshot |-> StoreRateLimit(Json(outcome), snapshot),
       exc |-> "none", description |-> <<>>]

\* RequestTry with the test for status >= 400 before the test for 429
RequestTry_error_first(outcome, snapshot) ==
    IF outcome.kind # "response"
      THEN [ret |-> PyNone, snapshot |-> snapshot, exc |-> outcome.kind,
            description |-> outcome.description]
    ELSE IF outcome.status_code >= 400
      THEN [ret |-> HttpError(outcome), snapshot |-> snapshot, exc |-> "none",
            description |-> <<>>]
    ELSE IF outcome.status_code = 429
      THEN [ret |-> RateLimited(outcome), snapshot |-> snapshot, exc |-> "none",
            description |-> <<>>]
    ELSE IF JsonRaises(outcome)
      THEN [ret |-> PyNone, snapshot |-> snapshot, exc |-> "JSONDecodeError",
            description |-> <<"E", "x", "p", "e", "c", "t", "i", "n", "g">>]
    ELSE
      [ret |-> Json(outcome),
       snapshot |-> StoreRateLimit(Json(outcome), snapshot),
       exc |-> "none", description |-> <<>>]

\* RequestTry returning what a `data` wrapper holds instead of the body
RequestTry_unwrap(outcome, snapshot) ==
    IF outcome.kind # "response"
      THEN [ret |-> PyNone, snapshot |-> snapshot, exc |-> outcome.kind,
            description |-> outcome.description]
    ELSE IF outcome.status_code = 429
      THEN [ret |-> RateLimited(outcome), snapshot |-> snapshot, exc |-> "none",
            description |-> <<>>]
    ELSE IF outcome.status_code >= 400
      THEN [ret |-> HttpError(outcome), snapshot |-> snapshot, exc |-> "none",
            description |-> <<>>]
    ELSE IF JsonRaises(outcome)
      THEN [ret |-> PyNone, snapshot |-> snapshot, exc |-> "JSONDecodeError",
            description |-> <<"E", "x", "p", "e", "c", "t", "i", "n", "g">>]
    ELSE
      [ret |-> IF IsDict(Json(outcome)) THEN Get(Json(outcome), "data", Json(outcome))
               ELSE Json(outcome),
       snapshot |-> StoreRateLimit(Json(outcome), snapshot),
       exc |-> "none", description |-> <<>>]

\* Lines 138-184, the body of the try block once client.request has returned
\* or raised: the value returned, the snapshot, and the exception raised in
\* the block, if any.
RequestTry(outcome, snapshot) ==
    IF outcome.kind # "response"
      THEN [ret |-> PyNone, snapshot |-> snapshot, exc |-> outcome.kind,
            description |-> outcome.description]
    ELSE IF outcome.status_code = 429
      THEN [ret |-> RateLimited(outcome), snapshot |-> snapshot, exc |-> "none",
            description |-> <<>>]
    ELSE IF outcome.status_code >= 400
      THEN [ret |-> HttpError(outcome), snapshot |-> snapshot, exc |-> "none",
            description |-> <<>>]
    ELSE IF JsonRaises(outcome)
      THEN [ret |-> PyNone, snapshot |-> snapshot, exc |-> "JSONDecodeError",
            description |-> <<"E", "x", "p", "e", "c", "t", "i", "n", "g">>]
    ELSE
      [ret |-> Json(outcome),
       snapshot |-> StoreRateLimit(Json(outcome), snapshot),
       exc |-> "none", description |-> <<>>]

\* RequestExcept that leaves str(e) out of its messages
RequestExcept_no_description(exc, description) ==
    IF IsTimeoutException(exc) THEN Failure(S_TimedOut)
    ELSE IF IsRequestError(exc) THEN Failure(S_RequestFailed)
    ELSE Failure(S_UnexpectedError)

\* RequestExcept with the clause of httpx.RequestError before the timeout one
RequestExcept_transport_first(exc, description) ==
    IF IsRequestError(exc) THEN Failure(S_RequestFailed \o description)
    ELSE IF IsTimeoutException(exc) THEN Failure(S_TimedOut)
    ELSE Failure(S_UnexpectedError \o description)

\* Lines 186-192: the except clauses, in their order
RequestExcept(exc, description) ==
    IF IsTimeoutException(exc) THEN Failure(S_TimedOut)
    ELSE IF IsRequestError(exc) THEN Failure(S_RequestFailed \o description)
    ELSE Failure(S_UnexpectedError \o description)

\* RequestCatches without the last clause, `except Exception`
RequestCatches_httpx(exc) == IsRequestError(exc)

\* Line 190: `except Exception` takes whatever the clauses before it left.
RequestCatches(exc) == TRUE

\* Lines 100-102
get_rate_limit_info == rate_limit_info

-----------------------------------------------------------------------------
(* The url of request() *)

MaxPathLen == 4         \* characters of a drawn endpoint after its leading "/"

PathAlphabet == {"/", "a", "p", "i", "k"}

API_BASE ==
    <<"h", "t", "t", "p", "s", ":", "/", "/", "a", "p", "i", ".", "f", "i",
    "n", "s", "c", "r", "e", "e", "n", "e", "r", ".", "i", "n">>

S_Api == <<"/", "a", "p", "i">>

\* str.rstrip("/")
RECURSIVE RStripSlash(_)
RStripSlash(s) ==
    IF s # <<>> /\ s[Len(s)] = "/" THEN RStripSlash(SubSeq(s, 1, Len(s) - 1))
    ELSE s

\* Line 32: self.api_base from the api_base argument; None and "" are <<>>
ApiBase(api_base_) == RStripSlash(IF api_base_ # <<>> THEN api_base_ ELSE API_BASE)

\* PrefixEndpoint that prefixes whenever use_api_prefix is set
PrefixEndpoint_always(endpoint_, use_api_prefix_) ==
    IF use_api_prefix_ THEN S_Api \o endpoint_ ELSE endpoint_

\* Lines 127-128: the endpoint after the /api prefix
PrefixEndpoint(endpoint_, use_api_prefix_) ==
    IF use_api_prefix_ /\ ~StartsWith(endpoint_, S_Api) THEN S_Api \o endpoint_
    ELSE endpoint_

\* Line 130
Url(api_base_, endpoint_, use_api_prefix_) ==
    api_base_ \o PrefixEndpoint(endpoint_, use_api_prefix_)

Path_apikeys ==
    <<"/", "a", "p", "i", "k", "e", "y", "s">>
Path_company_details ==
    <<"/", "c", "o", "m", "p", "a", "n", "y", "/", "d", "e", "t", "a", "i",
    "l", "s">>
Path_api_company_details ==
    <<"/", "a", "p", "i", "/", "c", "o", "m", "p", "a", "n", "y", "/", "d",
    "e", "t", "a", "i", "l", "s">>

\* The endpoints drawn: every path over PathAlphabet and three named ones
Endpoints ==
    { <<"/">> \o q : q \in UNION { [1..n -> PathAlphabet] : n \in 0..MaxPathLen } }
    \cup { Path_apikeys, Path_company_details, Path_api_company_details }

\* The api_base arguments drawn: none, and an origin written with and
\* without trailing slashes
ApiBaseArguments ==
    { <<>>, <<"h">>, <<"h", "/">>, <<"h", "/", "/">> }

-----------------------------------------------------------------------------
(* format_response *)

MaxItems == 3           \* items of a drawn list

\* A dict whose keys are iterated: k is the order in which they were inserted
OrderedDict(keys, f) == [t |-> "obj", f |-> f, k |-> keys]

\* The keys of a dict in iteration order; a dict written without an order
\* has one when it has at most one key
Keys(d) ==
    CASE "k" \in DOMAIN d -> d.k
      [] "k" \notin DOMAIN d /\ DOMAIN d.f = {} -> <<>>
      [] "k" \notin DOMAIN d /\ Cardinality(DOMAIN d.f) = 1
           -> <<CHOOSE key \in DOMAIN d.f : TRUE>>

\* str(key) of the keys that are iterated
KeyChars(k) ==
    CASE k = "company" -> <<"c", "o", "m", "p", "a", "n", "y">>
      [] k = "City" -> <<"C", "i", "t", "y">>
      [] k = "id" -> <<"i", "d">>
      [] k = "_id" -> <<"_", "i", "d">>
      [] k = "CIN" -> <<"C", "I", "N">>
      [] k = "name" -> <<"n", "a", "m", "e">>
      [] k = "status" -> <<"s", "t", "a", "t", "u", "s">>
      [] k = "state" -> <<"s", "t", "a", "t", "e">>
      [] k = "capital" -> <<"c", "a", "p", "i", "t", "a", "l">>
      [] k = "email" -> <<"e", "m", "a", "i", "l">>
      [] k = "note" -> <<"n", "o", "t", "e">>
      [] k = "tags" -> <<"t", "a", "g", "s">>
      [] k = "meta" -> <<"m", "e", "t", "a">>
      [] k = "open" -> <<"o", "p", "e", "n">>
      [] k = "success" -> <<"s", "u", "c", "c", "e", "s", "s">>
      [] k = "error" -> <<"e", "r", "r", "o", "r">>
      [] k = "rate_limit" -> <<"r", "a", "t", "e", "_", "l", "i", "m", "i", "t">>

\* sep.join(parts)
RECURSIVE Join(_, _)
Join(sep, parts) ==
    IF parts = <<>> THEN <<>>
    ELSE IF Len(parts) = 1 THEN parts[1]
    ELSE parts[1] \o sep \o Join(sep, Tail(parts))

\* q[:n]
Take(q, n) == SubSeq(q, 1, IF Len(q) < n THEN Len(q) ELSE n)

\* json.dumps of a scalar; the strings drawn need no escapes
JsonScalar(v) ==
    CASE v.t = "str" -> <<"\"">> \o v.s \o <<"\"">>
      [] v.t = "int" -> Digits(v.n)
      [] v.t = "null" -> <<"n", "u", "l", "l">>
      [] v.t = "bool" -> IF v.b THEN <<"t", "r", "u", "e">>
                         ELSE <<"f", "a", "l", "s", "e">>

\* json.dumps(value, indent=2, default=str) of an empty dict, an empty list
\* and a list of scalars
JsonDumps(v) ==
    CASE v.t = "obj" /\ DOMAIN v.f = {} -> <<"{", "}">>
      [] v.t = "list" /\ v.q = <<>> -> <<"[", "]">>
      [] v.t = "list" /\ v.q # <<>> ->
           <<"[", "\n", " ", " ">>
           \o Join(<<",", "\n", " ", " ">>,
                   [i \in 1..Len(v.q) |-> JsonScalar(v.q[i])])
           \o <<"\n", "]">>

S_ErrorColon ==
    <<"E", "r", "r", "o", "r", ":", " ">>

S_UnknownError ==
    <<"U", "n", "k", "n", "o", "w", "n", " ", "e", "r", "r", "o", "r">>

S_RateLimitInfo ==
    <<"\n", "\n", "R", "a", "t", "e", " ", "L", "i", "m", "i", "t", " ", "I",
    "n", "f", "o", ":", "\n", "-", " ", "D", "a", "i", "l", "y", " ", "L",
    "i", "m", "i", "t", ":", " ">>

S_UsedToday ==
    <<"\n", "-", " ", "U", "s", "e", "d", " ", "T", "o", "d", "a", "y", ":",
    " ">>

S_Resets ==
    <<"\n", "-", " ", "R", "e", "s", "e", "t", "s", ":", " ">>

S_NoResultsFound ==
    <<"N", "o", " ", "r", "e", "s", "u", "l", "t", "s", " ", "f", "o", "u",
    "n", "d", ".">>

S_NoDataAvailable ==
    <<"N", "o", " ", "d", "a", "t", "a", " ", "a", "v", "a", "i", "l", "a",
    "b", "l", "e", ".">>

Title_Results ==
    <<"R", "e", "s", "u", "l", "t", "s">>

\* `x == False`: 0 equals False
IsFalse(v) == v = PyBool(FALSE) \/ v = PyInt(0)

\* FormatFailure that leaves the rate-limit info out
FormatFailure_message_only(data_) ==
    PyStr(S_ErrorColon \o Format(Get(data_, "error", PyStr(S_UnknownError))))

\* Lines 227-232: an error response; rate_limit.get raises on a value that
\* is truthy and no dict
FormatFailure(data_) ==
    LET error_msg == Get(data_, "error", PyStr(S_UnknownError))
        rate_limit == Get(data_, "rate_limit", PyNone)
    IN IF ~Truthy(rate_limit) THEN PyStr(S_ErrorColon \o Format(error_msg))
       ELSE IF ~IsDict(rate_limit) THEN Raises("AttributeError", <<"g", "e", "t">>)
       ELSE PyStr(S_ErrorColon \o Format(error_msg)
                  \o S_RateLimitInfo \o Format(Get(rate_limit, "limit", PyInt(100)))
                  \o S_UsedToday \o Format(Get(rate_limit, "used", PyInt(0)))
                  \o S_Resets \o Format(Get(rate_limit, "resets_at", PyStr(S_EndOfDay))))

\* Lines 247-250: item_parts of a dict item
RECURSIVE ItemParts(_, _)
ItemParts(item, keys) ==
    IF keys = <<>> THEN <<>>
    ELSE LET key == Head(keys)
             v == item.f[key]
         IN (IF v # PyNone /\ key \notin {"_id", "id"}
               THEN << <<"*", "*">> \o KeyChars(key) \o <<"*", "*", ":", " ">>
                       \o Format(v) >>
               ELSE <<>>)
            \o ItemParts(item, Tail(keys))

\* ItemLine that shows every part of the item
ItemLine_every_part(i, item) ==
    IF IsDict(item)
      THEN Digits(i) \o <<".", " ">>
           \o Join(<<" ", "|", " ">>, ItemParts(item, Keys(item)))
      ELSE Digits(i) \o <<".", " ">> \o Format(item)

\* Lines 245-253: the line of the i-th item of a list
ItemLine(i, item) ==
    IF IsDict(item)
      THEN Digits(i) \o <<".", " ">>
           \o Join(<<" ", "|", " ">>, Take(ItemParts(item, Keys(item)), 4))
      ELSE Digits(i) \o <<".", " ">> \o Format(item)

\* Lines 256-262: the lines of a dict
RECURSIVE DictLines(_, _)
DictLines(d, keys) ==
    IF keys = <<>> THEN <<>>
    ELSE LET key == Head(keys)
             value == d.f[key]
         IN (IF value # PyNone
               THEN << <<"*", "*">> \o KeyChars(key) \o <<"*", "*", ":", " ">>
                       \o (IF value.t \in {"obj", "list"} THEN JsonDumps(value)
                           ELSE Format(value)) >>
               ELSE <<>>)
            \o DictLines(d, Tail(keys))

\* Lines 216-266: format_response; the str returned, or the exception raised
FormatResponse(data_, title_) ==
    IF IsDict(data_) /\ IsFalse(Get(data_, "success", PyNone))
      THEN FormatFailure(data_)
    ELSE
      LET inner == IF IsDict(data_) /\ "data" \in DOMAIN data_.f
                     THEN data_.f["data"] ELSE data_
          heading == IF title_ # <<>>
                       THEN << <<"#", "#", " ">> \o title_ \o <<"\n">> >>
                       ELSE <<>>
          lines == CASE inner.t = "list" ->
                          [i \in 1..Len(inner.q) |-> ItemLine(i, inner.q[i])]
                     [] inner.t = "obj" -> DictLines(inner, Keys(inner))
                     [] OTHER -> <<Format(inner)>>
          out == heading \o lines
      IN IF inner.t = "list" /\ inner.q = <<>> THEN PyStr(S_NoResultsFound)
         ELSE IF out # <<>> THEN PyStr(Join(<<"\n">>, out))
         ELSE PyStr(S_NoDataAvailable)

-----------------------------------------------------------------------------
(* Arguments of format_response *)

Item_P9 ==
    OrderedDict(<<"company", "City", "id">>, ("company" :> PyStr(<<"A", "c",
    "m", "e">>)) @@ ("City" :> PyStr(<<"M", "u", "m", "b", "a", "i">>)) @@
    ("id" :> PyStr(<<"1">>)))

Item_Wide ==
    OrderedDict(<<"_id", "CIN", "name", "status", "state", "capital",
    "email">>, ("_id" :> PyStr(<<"9">>)) @@ ("CIN" :> PyStr(<<"X">>)) @@
    ("name" :> PyNone) @@ ("status" :> PyStr(<<"A", "c", "t", "i", "v",
    "e">>)) @@ ("state" :> PyStr(<<"M", "H">>)) @@ ("capital" :> PyInt(5)) @@
    ("email" :> PyStr(<<"a", "@", "b">>)))

Item_IdOnly ==
    OrderedDict(<<"id">>, ("id" :> PyStr(<<"2">>)))

Record_Company ==
    OrderedDict(<<"name", "note", "tags", "meta", "open">>, ("name" :>
    PyStr(<<"A", "c", "m", "e">>)) @@ ("note" :> PyNone) @@ ("tags" :>
    PyList(<<PyStr(<<"a">>), PyInt(1)>>)) @@ ("meta" :> OrderedDict(<<>>,
    <<>>)) @@ ("open" :> PyBool(TRUE)))

Record_Nulls ==
    OrderedDict(<<"note">>, ("note" :> PyNone))

Failure_RateLimitText ==
    OrderedDict(<<"success", "error", "rate_limit">>, ("success" :>
    PyBool(FALSE)) @@ ("error" :> PyStr(<<"s", "l", "o", "w", " ", "d", "o",
    "w", "n">>)) @@ ("rate_limit" :> PyStr(<<"s", "o", "o", "n">>)))

Failure_NoMessage ==
    OrderedDict(<<"success">>, ("success" :> PyBool(FALSE)))

\* The items of the lists drawn
FormatItems ==
    { Item_P9, Item_Wide, Item_IdOnly, PyInt(7), PyStr(<<"x">>) }

FormatLists ==
    { PyList(q) : q \in UNION { [1..n -> FormatItems] : n \in 0..MaxItems } }

\* What request() returns for the answers of PrimaryOutcomes
RequestResults ==
    { LET try == RequestTry(outcome, EmptyDict)
      IN IF try.exc = "none" THEN try.ret
         ELSE RequestExcept(try.exc, try.description) : outcome \in PrimaryOutcomes }

\* The error responses among them
RequestFailures ==
    { r \in RequestResults : IsDict(r) /\ Get(r, "success", PyNone) = PyBool(FALSE) }

FormatData ==
    RequestFailures
    \cup FormatLists
    \cup { Dict([data |-> list]) : list \in FormatLists }
    \cup { PyNone, Dict([data |-> PyNone]), EmptyDict, Dict([data |-> EmptyDict]),
           Record_Nulls, Dict([data |-> Record_Nulls]),
           Record_Company, Dict([data |-> Record_Company]),
           PyInt(5), PyStr(<<"o", "k">>), Dict([data |-> PyInt(5)]),
           Failure_RateLimitText, Failure_NoMessage }

FormatTitles == { <<>>, Title_Results }

-----------------------------------------------------------------------------
(* The client and the coroutines of request() *)

invocation_vars == <<pc, headers, exchange, response, result, raised,
                     nExchange, nPrimary>>

\* Lines 30-36: a client as constructed, nothing in flight
Constructed ==
    /\ api_key \in ApiKeys
    /\ jwt_token = PyNone
    /\ token_expires_at = PyNone
    /\ rate_limit_info = EmptyDict
    /\ clock = 0
    /\ pc = [i \in Invocations |-> "idle"]
    /\ headers = [i \in Invocations |-> PyNone]
    /\ exchange = [i \in Invocations |-> PyNone]
    /\ response = [i \in Invocations |-> PyNone]
    /\ result = [i \in Invocations |-> PyNone]
    /\ raised = [i \in Invocations |-> FALSE]
    /\ nExchange = [i \in Invocations |-> 0]
    /\ nPrimary = [i \in Invocations |-> 0]

\* No tool is running
NoTool ==
    /\ tool = "none"
    /\ args = <<>>
    /\ frame = <<>>
    /\ tool_pc = "done"
    /\ calls = <<>>
    /\ returned = PyNone
    /\ tool_raised = FALSE

\* Lines 213: the global client, constructed without arguments; no function
\* has been applied
Init ==
    /\ Constructed
    /\ api_base = ApiBase(<<>>)
    /\ endpoint = PyNone
    /\ use_api_prefix = TRUE
    /\ url = PyNone
    /\ fmt_data = PyNone
    /\ fmt_title = <<>>
    /\ fmt_output = PyNone
    /\ NoTool

\* Time passes.
Tick ==
    /\ clock + TickMinutes <= MaxClock
    /\ clock' = clock + TickMinutes
    /\ UNCHANGED function_vars
    /\ UNCHANGED <<api_key, jwt_token, token_expires_at, rate_limit_info,
                   invocation_vars>>

\* Lines 135-146: build the headers from the token held now and issue the
\* primary call; the coroutine waits for the answer.
SendPrimary(i, jwt) ==
    /\ headers' = [headers EXCEPT ![i] = GetHeaders(jwt)]
    /\ nPrimary' = [nPrimary EXCEPT ![i] = @ + 1]
    /\ pc' = [pc EXCEPT ![i] = "primary"]

\* Lines 132-133 and 47-67: request() is called and runs to its first await,
\* which is the auth/login call when an exchange is due and the primary
\* call otherwise. The url of lines 126-130 is built in BuildUrl.
Request(i) ==
    /\ pc[i] = "idle"
    /\ UNCHANGED function_vars
    /\ LET branch == EnsureBranch(api_key, jwt_token, token_expires_at, clock) IN
       \/ /\ branch = "exchange"
          /\ nExchange' = [nExchange EXCEPT ![i] = @ + 1]
          /\ pc' = [pc EXCEPT ![i] = "exchange"]
          /\ UNCHANGED <<jwt_token, headers, nPrimary>>
       \/ /\ branch = "pass_through"
          /\ jwt_token' = PyStr(api_key)
          /\ SendPrimary(i, jwt_token')
          /\ UNCHANGED nExchange
       \/ /\ branch \in {"valid", "no_key"}
          /\ SendPrimary(i, jwt_token)
          /\ UNCHANGED <<jwt_token, nExchange>>
    /\ UNCHANGED <<api_key, token_expires_at, rate_limit_info, clock,
                   exchange, response, result, raised>>

\* Lines 63-88: the auth/login call returns or raises; the coroutine then
\* waits for the AsyncClient of line 61 to close.
ExchangeReturn(i, outcome) ==
    /\ pc[i] = "exchange"
    /\ UNCHANGED function_vars
    /\ LET try == ExchangeTry(jwt_token, token_expires_at, outcome, clock) IN
       /\ jwt_token' = try.jwt
       /\ token_expires_at' = try.expires
       /\ exchange' = [exchange EXCEPT ![i] = outcome]
       /\ IF try.exc = "none" \/ EnsureCatches(try.exc)
            THEN /\ pc' = [pc EXCEPT ![i] = "close"]
                 /\ UNCHANGED raised
            ELSE /\ pc' = [pc EXCEPT ![i] = "done"]
                 /\ raised' = [raised EXCEPT ![i] = TRUE]
    /\ UNCHANGED <<api_key, rate_limit_info, clock, headers, response, result,
                   nExchange, nPrimary>>

\* Lines 61 and 135-146: the AsyncClient of the exchange has closed,
\* _ensure_jwt_token returns and request() goes on to its primary call.
ExchangeClose(i) ==
    /\ pc[i] = "close"
    /\ UNCHANGED function_vars
    /\ SendPrimary(i, jwt_token)
    /\ UNCHANGED <<api_key, jwt_token, token_expires_at, rate_limit_info, clock,
                   exchange, response, result, raised, nExchange>>

\* PrimaryReturn that sends the call again when it timed out
PrimaryReturn_retry(i, outcome) ==
    /\ pc[i] = "primary"
    /\ UNCHANGED function_vars
    /\ IF IsTimeoutException(outcome.kind) /\ nPrimary[i] < 2
         THEN /\ nPrimary' = [nPrimary EXCEPT ![i] = @ + 1]
              /\ UNCHANGED <<pc, response, result, rate_limit_info>>
         ELSE LET try == RequestTry(outcome, rate_limit_info) IN
              /\ rate_limit_info' = try.snapshot
              /\ response' = [response EXCEPT ![i] = outcome]
              /\ result' = [result EXCEPT ![i] =
                              IF try.exc = "none" THEN try.ret
                              ELSE RequestExcept(try.exc, try.description)]
              /\ pc' = [pc EXCEPT ![i] = "done"]
              /\ UNCHANGED nPrimary
    /\ UNCHANGED <<api_key, jwt_token, token_expires_at, clock, headers,
                   exchange, nExchange, raised>>

\* Lines 139-192: the primary call returns or raises and request() returns.
PrimaryReturn(i, outcome) ==
    /\ pc[i] = "primary"
    /\ UNCHANGED function_vars
    /\ LET try == RequestTry(outcome, rate_limit_info) IN
       /\ rate_limit_info' = try.snapshot
       /\ response' = [response EXCEPT ![i] = outcome]
       /\ IF try.exc = "none"
            THEN /\ result' = [result EXCEPT ![i] = try.ret]
                 /\ UNCHANGED raised
            ELSE IF RequestCatches(try.exc)
            THEN /\ result' = [result EXCEPT ![i] =
                                  RequestExcept(try.exc, try.description)]
                 /\ UNCHANGED raised
            ELSE /\ raised' = [raised EXCEPT ![i] = TRUE]
                 /\ UNCHANGED result
    /\ pc' = [pc EXCEPT ![i] = "done"]
    /\ UNCHANGED <<api_key, jwt_token, token_expires_at, clock, headers,
                   exchange, nExchange, nPrimary>>

\* The caller has taken the result; the next call of request() may start.
Return(i) ==
    /\ pc[i] = "done"
    /\ UNCHANGED function_vars
    /\ pc' = [pc EXCEPT ![i] = "idle"]
    /\ headers' = [headers EXCEPT ![i] = PyNone]
    /\ exchange' = [exchange EXCEPT ![i] = PyNone]
    /\ response' = [response EXCEPT ![i] = PyNone]
    /\ result' = [result EXCEPT ![i] = PyNone]
    /\ raised' = [raised EXCEPT ![i] = FALSE]
    /\ nExchange' = [nExchange EXCEPT ![i] = 0]
    /\ nPrimary' = [nPrimary EXCEPT ![i] = 0]
    /\ UNCHANGED <<api_key, jwt_token, token_expires_at, rate_limit_info, clock>>

\* One caller after the other: a call of request() starts when the one
\* before it has returned. Every answer of the upstream is drawn.
Next ==
    \/ Tick
    \/ Request(1)
    \/ \E outcome \in ExchangeOutcomes : ExchangeReturn(1, outcome)
    \/ ExchangeClose(1)
    \/ \E outcome \in PrimaryOutcomes : PrimaryReturn(1, outcome)
    \/ Return(1)

Spec == Init /\ [][Next]_vars

\* The event loop resumes a coroutine whose awaited call has completed, and
\* every call of httpx returns or raises within its timeout (lines 61, 137):
\* an invocation under way goes on to return. Nothing makes a caller call.
SpecLive ==
    /\ Spec
    /\ WF_vars(\E outcome \in ExchangeOutcomes : ExchangeReturn(1, outcome))
    /\ WF_vars(ExchangeClose(1))
    /\ WF_vars(\E outcome \in PrimaryOutcomes : PrimaryReturn(1, outcome))
    /\ WF_vars(Return(1))

\* Two callers at once: their coroutines interleave at the awaits. The
\* answers drawn are one of each kind the credential logic tells apart.
RacingExchangeOutcomes ==
    { Response(200, PyStr(<<"t">>), Dict([access_token |-> JwtA])),
      Response(200, PyStr(<<"t">>), Dict([token |-> Dict([access_token |-> JwtB])])),
      Response(200, PyStr(<<"t">>), Dict([message |-> PyStr(<<"o", "k">>)])),
      Response(401, PyStr(<<"t">>), Dict([detail |-> PyStr(<<"b", "a", "d">>)])),
      Raises("ReadTimeout", <<"s", "l", "o", "w">>) }

RacingPrimaryOutcomes ==
    { Ok_RateLimit1, R401_NoField, Raises("ReadTimeout", <<"s", "l", "o", "w">>) }

NextConcurrent ==
    \/ Tick
    \/ \E i \in Invocations : Request(i)
    \/ \E i \in Invocations : \E outcome \in RacingExchangeOutcomes :
          ExchangeReturn(i, outcome)
    \/ \E i \in Invocations : ExchangeClose(i)
    \/ \E i \in Invocations : \E outcome \in RacingPrimaryOutcomes :
          PrimaryReturn(i, outcome)
    \/ \E i \in Invocations : Return(i)

SpecConcurrent == Init /\ [][NextConcurrent]_vars

-----------------------------------------------------------------------------
(* The url of request(), applied on its own *)

\* Lines 30-36: a client constructed with an api_base argument, about to be
\* called with an endpoint
InitUrl ==
    /\ Constructed
    /\ api_base \in { ApiBase(api_base_) : api_base_ \in ApiBaseArguments }
    /\ endpoint \in { PyStr(endpoint_) : endpoint_ \in Endpoints }
    /\ use_api_prefix \in BOOLEAN
    /\ url = PyNone
    /\ fmt_data = PyNone
    /\ fmt_title = <<>>
    /\ fmt_output = PyNone
    /\ NoTool

\* The part of a url after self.api_base
PathOf(url_) == SubSeq(url_.s, Len(api_base) + 1, Len(url_.s))

\* Lines 126-130: request() builds the url of its primary call
BuildUrl ==
    /\ url = PyNone
    /\ url' = PyStr(Url(api_base, endpoint.s, use_api_prefix))
    /\ UNCHANGED <<api_key, jwt_token, token_expires_at, rate_limit_info, clock,
                   invocation_vars, api_base, endpoint, use_api_prefix,
                   fmt_data, fmt_title, fmt_output, tool_vars>>

\* Lines 126-130: request() is called with the path it built before
RebuildUrl(use_api_prefix_) ==
    /\ url # PyNone
    /\ endpoint' = PyStr(PathOf(url))
    /\ use_api_prefix' = use_api_prefix_
    /\ url' = PyStr(Url(api_base, endpoint'.s, use_api_prefix_))
    /\ UNCHANGED <<api_key, jwt_token, token_expires_at, rate_limit_info, clock,
                   invocation_vars, api_base, fmt_data, fmt_title, fmt_output,
                   tool_vars>>

NextUrl ==
    \/ BuildUrl
    \/ \E use_api_prefix_ \in BOOLEAN : RebuildUrl(use_api_prefix_)

SpecUrl == InitUrl /\ [][NextUrl]_vars

-----------------------------------------------------------------------------
(* format_response, applied on its own *)

InitFormat ==
    /\ Constructed
    /\ api_base = ApiBase(<<>>)
    /\ endpoint = PyNone
    /\ use_api_prefix = TRUE
    /\ url = PyNone
    /\ fmt_data \in FormatData
    /\ fmt_title \in FormatTitles
    /\ fmt_output = PyNone
    /\ NoTool

\* Lines 216-266: format_response(data, title) is called and returns
Format_Response ==
    /\ fmt_output = PyNone
    /\ fmt_output' = FormatResponse(fmt_data, fmt_title)
    /\ UNCHANGED <<api_key, jwt_token, token_expires_at, rate_limit_info, clock,
                   invocation_vars, api_base, endpoint, use_api_prefix, url,
                   fmt_data, fmt_title, tool_vars>>

NextFormat == Format_Response

SpecFormat == InitFormat /\ [][NextFormat]_vars

-----------------------------------------------------------------------------
(* The tools of src/tools that validate an order or make a read call       *)
(* before a write call: create_order, watchlist_to_order, update_screener, *)
(* screener_to_watchlist and screener_to_order. A tool is a coroutine; it  *)
(* runs to its next `await client.<verb>(...)` or to its end, and what the  *)
(* awaited call answers is one of the values request() returns.            *)

\* The float n.0
PyFloat(n) == [t |-> "float", n |-> n]

\* json.dumps(value) and json.dumps(value, indent=2, default=str): the text
\* is kept as the value it encodes and the layout it was written in
JsonText(value, indent) == [t |-> "json", of |-> value, indent |-> indent]

\* Python's q[:n]
Prefix(q, n) ==
    IF n >= 0 THEN SubSeq(q, 1, IF Len(q) < n THEN Len(q) ELSE n)
    ELSE SubSeq(q, 1, IF Len(q) + n > 0 THEN Len(q) + n ELSE 0)

\* A run of a tool ends in one of three ways: the tool returns a text, an
\* exception leaves it, or it awaits a call of the client
ToolReturns(value) == [kind |-> "return", value |-> value]
ToolRaises(exc) == [kind |-> "raise", exc |-> exc]
ToolAwaits(method, endpoint_, json_data, at) ==
    [kind |-> "await", at |-> at,
     call |-> [method |-> method, endpoint |-> endpoint_, json_data |-> json_data]]

\* json.dumps({"error": message})
ErrorText(message) == ToolReturns(JsonText(Dict([error |-> PyStr(message)]), FALSE))

\* `isinstance(result, dict) and result.get("success") == False`
IsFailureResult(result_) == IsDict(result_) /\ IsFalse(Get(result_, "success", PyNone))

\* `result.get("data", result) if isinstance(result, dict) else result`
DataOf(result_) == IF IsDict(result_) THEN Get(result_, "data", result_) ELSE result_

\* `result.get("results", result.get("data", result)) if isinstance(result,
\* dict) else result`
ResultsOf(result_) ==
    IF IsDict(result_) THEN Get(result_, "results", Get(result_, "data", result_))
    ELSE result_

\* The characters of the string literals of the tools and of the strings
\* drawn for them
Chars(s) ==
    CASE s = " has invalid type '" ->
           <<" ", "h", "a", "s", " ", "i", "n", "v", "a", "l", "i", "d", " ",
           "t", "y", "p", "e", " ", "'">>
      [] s = " is missing 'number' (CIN/DIN/GSTIN)." ->
           <<" ", "i", "s", " ", "m", "i", "s", "s", "i", "n", "g", " ", "'",
           "n", "u", "m", "b", "e", "r", "'", " ", "(", "C", "I", "N", "/",
           "D", "I", "N", "/", "G", "S", "T", "I", "N", ")", ".">>
      [] s = "'." ->
           <<"'", ".">>
      [] s = "'. Must be 'credits' or 'cashfree'." ->
           <<"'", ".", " ", "M", "u", "s", "t", " ", "b", "e", " ", "'", "c",
           "r", "e", "d", "i", "t", "s", "'", " ", "o", "r", " ", "'", "c",
           "a", "s", "h", "f", "r", "e", "e", "'", ".">>
      [] s = "'. Must be one of: ['company', 'director', 'gst', 'fullcompany']" ->
           <<"'", ".", " ", "M", "u", "s", "t", " ", "b", "e", " ", "o", "n",
           "e", " ", "o", "f", ":", " ", "[", "'", "c", "o", "m", "p", "a",
           "n", "y", "'", ",", " ", "'", "d", "i", "r", "e", "c", "t", "o",
           "r", "'", ",", " ", "'", "g", "s", "t", "'", ",", " ", "'", "f",
           "u", "l", "l", "c", "o", "m", "p", "a", "n", "y", "'", "]">>
      [] s = "/orders/normal" ->
           <<"/", "o", "r", "d", "e", "r", "s", "/", "n", "o", "r", "m", "a",
           "l">>
      [] s = "/screener/screeners" ->
           <<"/", "s", "c", "r", "e", "e", "n", "e", "r", "/", "s", "c", "r",
           "e", "e", "n", "e", "r", "s">>
      [] s = "/screener/search" ->
           <<"/", "s", "c", "r", "e", "e", "n", "e", "r", "/", "s", "e", "a",
           "r", "c", "h">>
      [] s = "/watchlist" ->
           <<"/", "w", "a", "t", "c", "h", "l", "i", "s", "t">>
      [] s = "A" ->
           <<"A">>
      [] s = "At least one item is required to create an order." ->
           <<"A", "t", " ", "l", "e", "a", "s", "t", " ", "o", "n", "e", " ",
           "i", "t", "e", "m", " ", "i", "s", " ", "r", "e", "q", "u", "i",
           "r", "e", "d", " ", "t", "o", " ", "c", "r", "e", "a", "t", "e",
           " ", "a", "n", " ", "o", "r", "d", "e", "r", ".">>
      [] s = "B" ->
           <<"B">>
      [] s = "D1" ->
           <<"D", "1">>
      [] s = "Either query or screener_id required." ->
           <<"E", "i", "t", "h", "e", "r", " ", "q", "u", "e", "r", "y", " ",
           "o", "r", " ", "s", "c", "r", "e", "e", "n", "e", "r", "_", "i",
           "d", " ", "r", "e", "q", "u", "i", "r", "e", "d", ".">>
      [] s = "G" ->
           <<"G">>
      [] s = "G1" ->
           <<"G", "1">>
      [] s = "Invalid payment_option '" ->
           <<"I", "n", "v", "a", "l", "i", "d", " ", "p", "a", "y", "m", "e",
           "n", "t", "_", "o", "p", "t", "i", "o", "n", " ", "'">>
      [] s = "Invalid type '" ->
           <<"I", "n", "v", "a", "l", "i", "d", " ", "t", "y", "p", "e", " ",
           "'">>
      [] s = "Item " ->
           <<"I", "t", "e", "m", " ">>
      [] s = "N" ->
           <<"N">>
      [] s = "No results for query: " ->
           <<"N", "o", " ", "r", "e", "s", "u", "l", "t", "s", " ", "f", "o",
           "r", " ", "q", "u", "e", "r", "y", ":", " ">>
      [] s = "No results found for query: " ->
           <<"N", "o", " ", "r", "e", "s", "u", "l", "t", "s", " ", "f", "o",
           "u", "n", "d", " ", "f", "o", "r", " ", "q", "u", "e", "r", "y",
           ":", " ">>
      [] s = "No valid entities found." ->
           <<"N", "o", " ", "v", "a", "l", "i", "d", " ", "e", "n", "t", "i",
           "t", "i", "e", "s", " ", "f", "o", "u", "n", "d", ".">>
      [] s = "No valid items for order." ->
           <<"N", "o", " ", "v", "a", "l", "i", "d", " ", "i", "t", "e", "m",
           "s", " ", "f", "o", "r", " ", "o", "r", "d", "e", "r", ".">>
      [] s = "S" ->
           <<"S">>
      [] s = "T" ->
           <<"T">>
      [] s = "U1" ->
           <<"U", "1">>
      [] s = "U2" ->
           <<"U", "2">>
      [] s = "U3" ->
           <<"U", "3">>
      [] s = "Unknown" ->
           <<"U", "n", "k", "n", "o", "w", "n">>
      [] s = "Watchlist is empty." ->
           <<"W", "a", "t", "c", "h", "l", "i", "s", "t", " ", "i", "s", " ",
           "e", "m", "p", "t", "y", ".">>
      [] s = "cashfree" ->
           <<"c", "a", "s", "h", "f", "r", "e", "e">>
      [] s = "company" ->
           <<"c", "o", "m", "p", "a", "n", "y">>
      [] s = "credits" ->
           <<"c", "r", "e", "d", "i", "t", "s">>
      [] s = "d" ->
           <<"d">>
      [] s = "director" ->
           <<"d", "i", "r", "e", "c", "t", "o", "r">>
      [] s = "fullcompany" ->
           <<"f", "u", "l", "l", "c", "o", "m", "p", "a", "n", "y">>
      [] s = "gst" ->
           <<"g", "s", "t">>
      [] s = "llp" ->
           <<"l", "l", "p">>
      [] s = "n" ->
           <<"n">>
      [] s = "n1" ->
           <<"n", "1">>
      [] s = "o" ->
           <<"o">>
      [] s = "paylater" ->
           <<"p", "a", "y", "l", "a", "t", "e", "r">>
      [] s = "q1" ->
           <<"q", "1">>
      [] s = "q2" ->
           <<"q", "2">>
      [] s = "s1" ->
           <<"s", "1">>
      [] s = "upi" ->
           <<"u", "p", "i">>
      [] s = "w1" ->
           <<"w", "1">>

-----------------------------------------------------------------------------
(* order_tools.py *)

\* Lines 18-23
CREDIT_PRICES ==
    [item_type \in {Chars("company"), Chars("director"), Chars("gst"), Chars("fullcompany")} |->
        IF item_type = Chars("fullcompany") THEN 5 ELSE 1]

\* Line 25
VALID_ORDER_TYPES == <<Chars("company"), Chars("director"), Chars("gst"), Chars("fullcompany")>>

\* Line 74: `not item_type or item_type not in VALID_ORDER_TYPES`
InvalidItemType(item_type) ==
    \/ ~ Truthy(item_type)
    \/ ~ (item_type.t = "str"
          /\ \E n \in 1..Len(VALID_ORDER_TYPES) : VALID_ORDER_TYPES[n] = item_type.s)

\* Line 86: float(x) of a number; of None it raises
Float(x) == IF x.t \in {"int", "float"} THEN PyFloat(x.n) ELSE PyNone

\* Lines 72-87: the loop of create_order from item i on, validated_items
\* holding the items before it
RECURSIVE ValidateItems(_, _, _)
ValidateItems(items, i, validated_items) ==
    IF i > Len(items) THEN [kind |-> "validated", items |-> validated_items]
    ELSE IF ~ IsDict(items[i]) THEN ToolRaises("AttributeError")
    ELSE
      LET item == items[i]
          item_type == Get(item, "type", PyNone)
      IN IF InvalidItemType(item_type)
         THEN ErrorText(Chars("Item ") \o Digits(i) \o Chars(" has invalid type '")
                        \o Format(item_type) \o Chars("'. Must be one of: ['company', 'director', 'gst', 'fullcompany']"))
         ELSE IF ~ Truthy(Get(item, "number", PyNone))
         THEN ErrorText(Chars("Item ") \o Digits(i) \o Chars(" is missing 'number' (CIN/DIN/GSTIN)."))
         ELSE
           LET price == Float(Get(item, "price", PyInt(CREDIT_PRICES[item_type.s])))
           IN IF price = PyNone THEN ToolRaises("TypeError")
              ELSE ValidateItems(items, i + 1,
                     Append(validated_items,
                            Dict([type |-> item_type,
                                  name |-> Get(item, "name", item.f["number"]),
                                  number |-> item.f["number"],
                                  price |-> price])))

\* Lines 65-95: create_order up to its await
CreateOrder(order_name, payment_option, items) ==
    IF ~ (/\ payment_option.t = "str"
          /\ payment_option.s \in {Chars("credits"), Chars("cashfree")})
    THEN ErrorText(Chars("Invalid payment_option '") \o Format(payment_option)
                   \o Chars("'. Must be 'credits' or 'cashfree'."))
    ELSE IF ~ Truthy(items) THEN ErrorText(Chars("At least one item is required to create an order."))
    ELSE
      LET validated == ValidateItems(items.q, 1, <<>>)
      IN IF validated.kind # "validated" THEN validated
         ELSE ToolAwaits("POST", Chars("/orders/normal"),
                     Dict([orderName |-> order_name,
                           paymentOption |-> payment_option,
                           items |-> PyList(validated.items)]),
                     "order")

\* Lines 122-127
WatchlistOrderItem(item) ==
    Dict([type |-> Get(item, "type", PyStr(Chars("company"))),
          name |-> Get(item, "name", Get(item, "number", PyStr(Chars("Unknown")))),
          number |-> Get(item, "number", Get(item, "identifier", PyStr(<<>>))),
          price |-> PyFloat(10)])

\* Line 115
WatchlistItems(wl_result) ==
    LET wl_data == DataOf(wl_result)
    IN IF IsDict(wl_data)
       THEN Get(wl_data, "items", Get(wl_data, "entities", PyList(<<>>)))
       ELSE PyList(<<>>)

\* Lines 111-129: watchlist_to_order from the answer of its read call on,
\* into create_order up to its await; the loop raises on what has no .get
WatchlistToOrderRead(order_name, payment_option, wl_result) ==
    LET items_data == WatchlistItems(wl_result)
    IN IF IsFailureResult(wl_result) THEN ToolReturns(JsonText(wl_result, FALSE))
       ELSE IF ~ Truthy(items_data) THEN ErrorText(Chars("Watchlist is empty."))
       ELSE IF \/ items_data.t # "list"
               \/ \E n \in 1..Len(items_data.q) : ~ IsDict(items_data.q[n])
       THEN ToolRaises("AttributeError")
       ELSE CreateOrder(order_name, payment_option,
                        PyList([i \in 1..Len(items_data.q) |->
                                  WatchlistOrderItem(items_data.q[i])]))

-----------------------------------------------------------------------------
(* screener_tools.py *)

\* Lines 78-91: update_screener from the answer of its read call on; `or`
\* reads `data` only when the argument before it is falsy
UpdateScreenerRead(a, existing) ==
    LET data == DataOf(existing)
        field(argument, key) ==
            IF Truthy(argument) THEN argument ELSE Get(data, key, PyNone)
        description == field(a.description, "description")
    IN IF IsFailureResult(existing) THEN ToolReturns(JsonText(existing, FALSE))
       ELSE IF /\ ~ IsDict(data)
               /\ \E argument \in {a.name, a.query, a.type, a.description} :
                     ~ Truthy(argument)
       THEN ToolRaises("AttributeError")
       ELSE ToolAwaits("PUT", Chars("/screener/screeners") \o <<"/">> \o Format(a.screener_id),
                   Dict([name |-> field(a.name, "name"),
                         query |-> field(a.query, "query"),
                         type |-> field(a.type, "type")]
                        @@ (IF Truthy(description)
                            THEN ("description" :> description) ELSE <<>>)),
                   "write")

\* Lines 128-142
WatchlistEntity(watchlist_type, item) ==
    CASE watchlist_type.s = Chars("company") ->
           Dict([identifier |-> Get(item, "CIN", Get(item, "cin", PyStr(<<>>))),
                 name |-> Get(item, "company",
                              Get(item, "companyName", PyStr(Chars("Unknown"))))])
      [] watchlist_type.s = Chars("director") ->
           Dict([identifier |-> Get(item, "DIN", Get(item, "din", PyStr(<<>>))),
                 name |-> Get(item, "directorName",
                              Get(item, "name", PyStr(Chars("Unknown"))))])
      [] OTHER ->
           Dict([identifier |-> Get(item, "GSTIN", Get(item, "gstin", PyStr(<<>>))),
                 name |-> Get(item, "TradeName",
                              Get(item, "tradeName",
                                  Get(item, "LegalName", PyStr(Chars("Unknown")))))])

\* Line 144: `[e for e in entities if e.get("identifier")]`
RECURSIVE Identified(_)
Identified(entities) ==
    IF entities = <<>> THEN <<>>
    ELSE (IF Truthy(Get(Head(entities), "identifier", PyNone))
          THEN <<Head(entities)>> ELSE <<>>) \o Identified(Tail(entities))

\* Lines 118-155: screener_to_watchlist from the answer of its search on
ScreenerToWatchlistRead(a, result_) ==
    LET data == ResultsOf(result_)
        items == Prefix(data.q, a.limit.n)
        entities == Identified([i \in 1..Len(items) |->
                                  WatchlistEntity(a.watchlist_type, items[i])])
    IN IF IsFailureResult(result_) THEN ToolReturns(JsonText(result_, FALSE))
       ELSE IF data.t # "list" \/ ~ Truthy(data)
       THEN ErrorText(Chars("No results found for query: ") \o Format(a.query))
       ELSE IF (\E n \in 1..Len(items) : ~ IsDict(items[n])) THEN ToolRaises("AttributeError")
       ELSE IF entities = <<>> THEN ErrorText(Chars("No valid entities found."))
       ELSE ToolAwaits("POST", Chars("/watchlist"),
                   Dict([name |-> a.watchlist_name,
                         watchlist_type |-> a.watchlist_type,
                         entities |-> PyList(entities)]),
                   "write")

\* Lines 182-193: screener_to_order from the test of its query to the await
\* of its search
ScreenerToOrderSearch(query, type, limit) ==
    IF ~ Truthy(query) THEN ErrorText(Chars("Either query or screener_id required."))
    ELSE IF ~ Truthy(type)
            \/ ~ (type.t = "str" /\ type.s \in {Chars("company"), Chars("director"), Chars("gst")})
    THEN ErrorText(Chars("Invalid type '") \o Format(type) \o Chars("'."))
    ELSE ToolAwaits("POST", Chars("/screener/search"),
                Dict([query |-> query, type |-> type, page |-> PyInt(1),
                      limit |-> IF Truthy(limit) THEN limit ELSE PyInt(100)]),
                "search")

\* Lines 178-180: the query and the type taken from the saved screener
SavedScreener(scr_result, type) ==
    LET scr_data == DataOf(scr_result)
    IN IF IsDict(scr_data)
       THEN [query |-> Get(scr_data, "query", PyNone),
             type |-> Get(scr_data, "type", PyNone)]
       ELSE [query |-> PyNone, type |-> type]

\* Lines 205-225
ScreenerOrderItem(type, item) ==
    CASE type.s = Chars("company") ->
           Dict([type |-> PyStr(Chars("company")),
                 name |-> Get(item, "company",
                              Get(item, "companyName", PyStr(Chars("Unknown")))),
                 number |-> Get(item, "CIN", Get(item, "cin", PyStr(<<>>))),
                 price |-> PyFloat(10)])
      [] type.s = Chars("director") ->
           Dict([type |-> PyStr(Chars("director")),
                 name |-> Get(item, "directorName",
                              Get(item, "name", PyStr(Chars("Unknown")))),
                 number |-> Get(item, "DIN", Get(item, "din", PyStr(<<>>))),
                 price |-> PyFloat(10)])
      [] OTHER ->
           Dict([type |-> PyStr(Chars("gst")),
                 name |-> Get(item, "TradeName",
                              Get(item, "tradeName",
                                  Get(item, "LegalName", PyStr(Chars("Unknown"))))),
                 number |-> Get(item, "GSTIN", Get(item, "gstin", PyStr(<<>>))),
                 price |-> PyFloat(10)])

\* Lines 195-236: screener_to_order from the answer of its search on
ScreenerToOrderRead(f, result_) ==
    LET data == ResultsOf(result_)
        items == Prefix(data.q, IF Truthy(f.limit) THEN f.limit.n ELSE 100)
    IN IF IsFailureResult(result_) THEN ToolReturns(JsonText(result_, FALSE))
       ELSE IF data.t # "list" \/ ~ Truthy(data)
       THEN ErrorText(Chars("No results for query: ") \o Format(f.query))
       ELSE IF (\E n \in 1..Len(items) : ~ IsDict(items[n])) THEN ToolRaises("AttributeError")
       ELSE IF items = <<>> THEN ErrorText(Chars("No valid items for order."))
       ELSE ToolAwaits("POST", Chars("/orders/normal"),
                   Dict([orderName |-> f.order_name,
                         paymentOption |-> f.payment_option,
                         items |-> PyList([i \in 1..Len(items) |->
                                             ScreenerOrderItem(f.type, items[i])])]),
                   "write")

-----------------------------------------------------------------------------
(* The tools, run on their own *)

\* The arguments a tool is called with
Arguments(tool_) ==
    LET payment_options ==
          { PyStr(Chars("credits")), PyStr(Chars("cashfree")),
            PyStr(Chars("paylater")), PyStr(Chars("upi")) }
        company == 
          Dict([type |-> PyStr(Chars("company")), name |-> PyStr(Chars("A")),
            number |-> PyStr(Chars("U1"))])
        full == 
          Dict([type |-> PyStr(Chars("fullcompany")), number |->
            PyStr(Chars("U2")), price |-> PyInt(7)])
        unnumbered == 
          Dict([type |-> PyStr(Chars("gst")), name |-> PyStr(Chars("G"))])
        llp == 
          Dict([type |-> PyStr(Chars("llp")), number |-> PyStr(Chars("U3"))])
        unpriced == 
          Dict([type |-> PyStr(Chars("director")), number |->
            PyStr(Chars("D1")), price |-> PyNone])
        item_lists ==
          { PyNone, PyList(<<>>), PyList(<<company>>), PyList(<<company, full>>),
            PyList(<<company, unnumbered>>), PyList(<<llp>>), PyList(<<unpriced>>) }
    IN
    CASE tool_ = "create_order" ->
           [order_name : {PyStr(Chars("o"))}, payment_option : payment_options,
            items : item_lists]
      [] tool_ = "watchlist_to_order" ->
           [watchlist_id : {PyStr(Chars("w1"))}, order_name : {PyStr(Chars("o"))},
            payment_option : payment_options]
      [] tool_ = "update_screener" ->
           [screener_id : {PyStr(Chars("s1"))}, name : {PyNone, PyStr(Chars("n"))},
            query : {PyNone, PyStr(Chars("q2"))},
            type : {PyNone, PyStr(Chars("gst"))},
            description : {PyNone, PyStr(Chars("d"))}]
      [] tool_ = "screener_to_watchlist" ->
           [watchlist_name : {PyStr(Chars("n"))},
            watchlist_type : {PyStr(Chars("company")), PyStr(Chars("director")),
                              PyStr(Chars("gst")), PyStr(Chars("llp"))},
            query : {PyStr(Chars("q1"))}, limit : {PyInt(100), PyInt(1), PyInt(0)}]
      [] tool_ = "screener_to_order" ->
           [order_name : {PyStr(Chars("o"))}, payment_option : payment_options,
            query : {PyNone, PyStr(Chars("q2"))},
            screener_id : {PyNone, PyStr(Chars("s1"))},
            type : {PyNone, PyStr(Chars("company")), PyStr(Chars("director")),
                    PyStr(Chars("llp"))},
            limit : {PyNone, PyInt(1), PyInt(-1)}]

\* What client.get, client.post and client.put answer: request() returns
\* the decoded body of its primary call or a failure
Answers ==
    RequestResults
    \cup {
        Dict([data |-> Dict([items |-> PyList(<<Dict([type |->
          PyStr(Chars("company")), name |-> PyStr(Chars("A")), number |->
          PyStr(Chars("U1"))]), Dict([type |-> PyStr(Chars("gst")), number |->
          PyStr(Chars("G1"))])>>)])]),
        Dict([entities |-> PyList(<<Dict([identifier |->
          PyStr(Chars("U1"))])>>)]),
        Dict([data |-> Dict([items |-> PyList(<<>>)])]),
        Dict([items |-> PyList(<<Dict([name |-> PyStr(Chars("A"))])>>)]),
        Dict([items |-> PyList(<<Dict([type |-> PyStr(Chars("llp")), number
          |-> PyStr(Chars("U3"))])>>)]),
        Dict([items |-> PyList(<<PyStr(Chars("U1"))>>)]),
        Dict([data |-> Dict([name |-> PyStr(Chars("S")), query |->
          PyStr(Chars("q1")), type |-> PyStr(Chars("company"))])]),
        Dict([name |-> PyStr(Chars("S")), query |-> PyStr(Chars("q1")), type
          |-> PyStr(Chars("gst")), description |-> PyStr(Chars("d"))]),
        Dict([data |-> Dict([name |-> PyStr(Chars("S"))])]),
        Dict([data |-> Dict([query |-> PyStr(Chars("q1")), type |->
          PyStr(Chars("llp"))])]),
        Dict([data |-> PyNone]),
        Dict([results |-> PyList(<<Dict([CIN |-> PyStr(Chars("U1")), company
          |-> PyStr(Chars("A"))]), Dict([cin |-> PyStr(Chars("U2")),
          companyName |-> PyStr(Chars("B"))])>>)]),
        Dict([data |-> PyList(<<Dict([company |-> PyStr(Chars("A"))]),
          Dict([CIN |-> PyStr(Chars("U2"))])>>)]),
        Dict([results |-> PyList(<<Dict([company |-> PyStr(Chars("A"))])>>)]),
        Dict([results |-> PyList(<<Dict([DIN |-> PyStr(Chars("D1")),
          directorName |-> PyStr(Chars("N"))])>>)]),
        PyList(<<Dict([GSTIN |-> PyStr(Chars("G1")), TradeName |->
          PyStr(Chars("T"))])>>),
        Dict([results |-> PyList(<<>>)]),
        Dict([results |-> Dict([total |-> PyInt(0)])]),
        Dict([results |-> PyList(<<PyStr(Chars("U1"))>>)]),
        Dict([success |-> PyBool(TRUE), data |-> Dict([id |->
          PyStr(Chars("n1"))])]) }

\* A tool has been called and has not run yet; its parameters are its
\* first local variables
InitTools ==
    /\ Constructed
    /\ api_base = ApiBase(<<>>)
    /\ endpoint = PyNone
    /\ use_api_prefix = TRUE
    /\ url = PyNone
    /\ fmt_data = PyNone
    /\ fmt_title = <<>>
    /\ fmt_output = PyNone
    /\ tool \in {"create_order", "watchlist_to_order", "update_screener",
                "screener_to_watchlist", "screener_to_order"}
    /\ args \in Arguments(tool)
    /\ frame = args
    /\ tool_pc = "called"
    /\ calls = <<>>
    /\ returned = PyNone
    /\ tool_raised = FALSE

\* The tool runs to its next await, to its return or to its raise; the
\* tools do not touch the client but through the calls they await
Run(outcome) ==
    /\ tool_pc' = IF outcome.kind = "await" THEN outcome.at ELSE "done"
    /\ calls' = IF outcome.kind = "await" THEN Append(calls, outcome.call) ELSE calls
    /\ returned' = IF outcome.kind = "return" THEN outcome.value ELSE returned
    /\ tool_raised' = (outcome.kind = "raise")
    /\ UNCHANGED <<tool, args, api_key, jwt_token, token_expires_at,
                   rate_limit_info, clock, invocation_vars, api_base, endpoint,
                   use_api_prefix, url, fmt_data, fmt_title, fmt_output>>

\* Lines 65-95: create_order is called
Create_Order ==
    /\ tool = "create_order" /\ tool_pc = "called"
    /\ Run(CreateOrder(frame.order_name, frame.payment_option, frame.items))
    /\ UNCHANGED frame

\* Lines 105-109: watchlist_to_order is called
Watchlist_To_Order ==
    /\ tool = "watchlist_to_order" /\ tool_pc = "called"
    /\ Run(IF ~ (/\ frame.payment_option.t = "str"
                 /\ frame.payment_option.s
                      \in {Chars("credits"), Chars("cashfree")})
           THEN ErrorText(Chars("Invalid payment_option '")
                          \o Format(frame.payment_option)
                          \o Chars("'. Must be 'credits' or 'cashfree'."))
           ELSE ToolAwaits("GET",
                           Chars("/watchlist") \o <<"/">> \o Format(frame.watchlist_id),
                           PyNone, "watchlist"))
    /\ UNCHANGED frame

\* Lines 109-129: the GET of watchlist_to_order answers
Watchlist_To_Order_Read(wl_result) ==
    /\ tool = "watchlist_to_order" /\ tool_pc = "watchlist"
    /\ Run(WatchlistToOrderRead(frame.order_name, frame.payment_option, wl_result))
    /\ UNCHANGED frame

\* Line 77: update_screener is called
Update_Screener ==
    /\ tool = "update_screener" /\ tool_pc = "called"
    /\ Run(ToolAwaits("GET",
                      Chars("/screener/screeners") \o <<"/">>
                      \o Format(frame.screener_id),
                      PyNone, "screener"))
    /\ UNCHANGED frame

\* Lines 77-91: the GET of update_screener answers
Update_Screener_Read(existing) ==
    /\ tool = "update_screener" /\ tool_pc = "screener"
    /\ Run(UpdateScreenerRead(frame, existing))
    /\ UNCHANGED frame

\* Lines 108-116: screener_to_watchlist is called
Screener_To_Watchlist ==
    /\ tool = "screener_to_watchlist" /\ tool_pc = "called"
    /\ Run(IF ~ (frame.watchlist_type.t = "str"
                 /\ frame.watchlist_type.s
                      \in {Chars("company"), Chars("director"), Chars("gst")})
           THEN ErrorText(Chars("Invalid type '") \o Format(frame.watchlist_type)
                          \o Chars("'."))
           ELSE ToolAwaits("POST", Chars("/screener/search"),
                  Dict([query |-> frame.query,
                        type |-> IF frame.watchlist_type.s
                                      \in {Chars("company"), Chars("director")}
                                 THEN PyStr(Chars("company"))
                                 ELSE PyStr(Chars("gst")),
                        page |-> PyInt(1),
                        limit |-> PyInt(IF frame.limit.n < 500
                                        THEN frame.limit.n ELSE 500)]),
                  "search"))
    /\ UNCHANGED frame

\* Lines 112-155: the search of screener_to_watchlist answers
Screener_To_Watchlist_Read(result_) ==
    /\ tool = "screener_to_watchlist" /\ tool_pc = "search"
    /\ Run(ScreenerToWatchlistRead(frame, result_))
    /\ UNCHANGED frame

\* Lines 168-193: screener_to_order is called; "paylater" is sent as
\* "cashfree"
Screener_To_Order ==
    /\ tool = "screener_to_order" /\ tool_pc = "called"
    /\ Run(IF ~ (frame.payment_option.t = "str"
                 /\ frame.payment_option.s
                      \in {Chars("credits"), Chars("cashfree"), Chars("paylater")})
           THEN ErrorText(Chars("Invalid payment_option '")
                          \o Format(frame.payment_option) \o Chars("'."))
           ELSE IF Truthy(frame.screener_id) /\ ~ Truthy(frame.query)
           THEN ToolAwaits("GET",
                           Chars("/screener/screeners") \o <<"/">>
                           \o Format(frame.screener_id),
                           PyNone, "screener")
           ELSE ScreenerToOrderSearch(frame.query, frame.type, frame.limit))
    /\ frame' = [frame EXCEPT !.payment_option =
                   IF @ = PyStr(Chars("paylater")) THEN PyStr(Chars("cashfree"))
                   ELSE @]

\* Lines 175-193: the GET of screener_to_order answers
Screener_To_Order_Screener(scr_result) ==
    /\ tool = "screener_to_order" /\ tool_pc = "screener"
    /\ Run(IF IsFailureResult(scr_result)
           THEN ToolReturns(JsonText(scr_result, FALSE))
           ELSE ScreenerToOrderSearch(SavedScreener(scr_result, frame.type).query,
                                      SavedScreener(scr_result, frame.type).type,
                                      frame.limit))
    /\ frame' = IF IsFailureResult(scr_result) THEN frame
                ELSE [frame EXCEPT !.query = SavedScreener(scr_result, frame.type).query,
                                   !.type = SavedScreener(scr_result, @).type]

\* Lines 189-236: the search of screener_to_order answers
Screener_To_Order_Read(result_) ==
    /\ tool = "screener_to_order" /\ tool_pc = "search"
    /\ Run(ScreenerToOrderRead(frame, result_))
    /\ UNCHANGED frame

\* order_tools.py lines 95-96, screener_tools.py lines 91-92, 155-156 and
\* 236-237: the write call of a tool answers and the tool returns the answer
Write_Return(result_) ==
    /\ tool_pc \in {"order", "write"}
    /\ Run(ToolReturns(JsonText(result_, TRUE)))
    /\ UNCHANGED frame

NextTools ==
    \/ Create_Order
    \/ Watchlist_To_Order
    \/ \E wl_result \in Answers : Watchlist_To_Order_Read(wl_result)
    \/ Update_Screener
    \/ \E existing \in Answers : Update_Screener_Read(existing)
    \/ Screener_To_Watchlist
    \/ \E result_ \in Answers : Screener_To_Watchlist_Read(result_)
    \/ Screener_To_Order
    \/ \E scr_result \in Answers : Screener_To_Order_Screener(scr_result)
    \/ \E result_ \in Answers : Screener_To_Order_Read(result_)
    \/ \E result_ \in Answers : Write_Return(result_)

SpecTools == InitTools /\ [][NextTools]_vars


-----------------------------------------------------------------------------
(* Vocabulary of the properties *)

Exchangeable == StartsWith(api_key, FskPrefix)
PassThrough == api_key # <<>> /\ ~StartsWith(api_key, FskPrefix)

\* The steps of invocation i
Called(i) == pc[i] = "idle" /\ pc'[i] # "idle"
ExchangeAnswered(i) == pc[i] = "exchange" /\ pc'[i] # "exchange"
PrimaryAnswered(i) == pc[i] = "primary" /\ pc'[i] # "primary"

\* A token is held and its expiry has passed / is still ahead
HeldStale == /\ Truthy(jwt_token)
             /\ token_expires_at # PyNone
             /\ token_expires_at.m <= clock
HeldFresh == /\ Truthy(jwt_token)
             /\ token_expires_at # PyNone
             /\ clock < token_expires_at.m

IsResponse(o) == o # PyNone /\ o.kind = "response"

\* The access token of an auth/login body, read directly or under the one-level
\* `token` wrapper; None when the body has none.
AccessTokenOf(body) ==
    IF ~IsDict(body) THEN PyNone
    ELSE IF "token" \in DOMAIN body.f
      THEN IF IsDict(body.f["token"])
             THEN Get(body.f["token"], "access_token", PyNone)
             ELSE PyNone
    ELSE Get(body, "access_token", PyNone)

\* The auth/login call answered 200 with an access token
GrantsToken(o) ==
    /\ IsResponse(o) /\ o.status_code = 200
    /\ Truthy(AccessTokenOf(o.json))

\* The auth/login call answered 200 with a structured body without access token
LacksToken(o) ==
    /\ IsResponse(o) /\ o.status_code = 200
    /\ IsDict(o.json)
    /\ AccessTokenOf(o.json) = PyNone

\* The auth/login call answered with another status, or failed in transport
ExchangeFailed(o) ==
    /\ o # PyNone
    /\ \/ o.kind # "response"
       \/ o.status_code # 200

-----------------------------------------------------------------------------
(* C1: with an exchangeable key and a held token whose expiry has passed, a
   call performs exactly one exchange, and when that exchange answers 200
   with an access token the expiry becomes the time of the call plus 50
   minutes, with carry into the hour, at every minute of the hour. *)
C1_TokenRefresh ==
    [][\A i \in Invocations :
         /\ (Called(i) /\ Exchangeable /\ HeldStale)
              => (pc'[i] = "exchange" /\ nExchange'[i] = 1)
         /\ (ExchangeAnswered(i) /\ HeldStale /\ GrantsToken(exchange'[i]))
              => (/\ nExchange'[i] = 1
                  /\ token_expires_at' = DateTime(clock + RefreshMinutes))]_vars

(* C2: when a token is held and the exchange answers 200 with a body that
   has no access token, the token and its expiry stay as they were: the
   token held before is held after. *)
C2_NoTokenKeepsState ==
    [][\A i \in Invocations :
         (ExchangeAnswered(i) /\ Truthy(jwt_token) /\ LacksToken(exchange'[i]))
           => (jwt_token' = jwt_token /\ token_expires_at' = token_expires_at)]_vars

(* C3: a token obtained from an exchange always has an expiry, and a token
   installed from a pass-through key never has one. *)
C3_CredentialInvariant ==
    /\ (Exchangeable /\ Truthy(jwt_token)) => token_expires_at # PyNone
    /\ (PassThrough /\ Truthy(jwt_token)) => token_expires_at = PyNone

Done(i) == pc[i] = "done"

\* The primary call of i was answered 429 with a structured body whose
\* `detail` is an object
RateLimitedWithDetail(i) ==
    /\ Done(i) /\ IsResponse(response[i])
    /\ response[i].status_code = 429
    /\ IsDict(response[i].json)
    /\ "detail" \in DOMAIN response[i].json.f
    /\ IsDict(response[i].json.f["detail"])

\* The failure result C4 describes, the reset value read under reset_key
RateLimitResult(detail, reset_key, res) ==
    /\ IsDict(res)
    /\ DOMAIN res.f = {"success", "error", "rate_limit"}
    /\ res.f["success"] = PyBool(FALSE)
    /\ Contains(res.f["error"].s,
                Format(Get(detail, "message", PyStr(S_DailyLimitReached))))
    /\ res.f["rate_limit"] =
         Dict([limit |-> Get(detail, "limit", PyInt(100)),
               used |-> Get(detail, "used", PyInt(100)),
               resets_at |-> Get(detail, reset_key, PyStr(S_EndOfDay))])

(* C4 as stated: a 429 answer whose body has a `detail` object yields a
   failure whose message contains detail.message (default "Daily limit
   reached") and whose rate-limit block has limit = detail.limit (default
   100), used = detail.used (default 100) and the reset value =
   detail.resetsAt (default "End of day"). Stated on the bodies the specification
   describes, which carry the reset time under `resetsAt` or not at all. *)
C4_RateLimited_resetsAt ==
    \A i \in Invocations :
      (/\ RateLimitedWithDetail(i)
       /\ "resets_at" \notin DOMAIN response[i].json.f["detail"].f)
        => RateLimitResult(response[i].json.f["detail"], "resetsAt", result[i])

(* C4 as amended: the same, the reset value being detail.resets_at (default
   "End of day"); a `resetsAt` field of the body is not read. *)
C4_RateLimited ==
    \A i \in Invocations :
      RateLimitedWithDetail(i)
        => RateLimitResult(response[i].json.f["detail"], "resets_at", result[i])

\* A 429 answer that carries a reset time has been classified; so has the
\* body of the example, whose `resetsAt` yields the default.
C4_Witness ==
    \E i \in Invocations :
      /\ RateLimitedWithDetail(i)
      /\ \/ /\ "resets_at" \in DOMAIN response[i].json.f["detail"].f
            /\ result[i].f["rate_limit"].f["resets_at"] # PyStr(S_EndOfDay)
         \/ /\ response[i] = R429_Camel
            /\ result[i].f["rate_limit"].f["resets_at"] = PyStr(S_EndOfDay)

\* The body of an answer is an object with a top-level rate_limit field
HasRateLimit(o) ==
    /\ IsResponse(o)
    /\ IsDict(o.json)
    /\ "rate_limit" \in DOMAIN o.json.f

Succeeded(o) == IsResponse(o) /\ o.status_code < 400

(* C5 as stated: the snapshot starts absent, becomes the rate-limit field of
   every answer that has one, whatever its status, and changes at no other
   step; get_rate_limit_info returns it. *)
C5_Snapshot_AnyStatus ==
    /\ get_rate_limit_info = EmptyDict
    /\ [][IF \E i \in Invocations : PrimaryAnswered(i) /\ HasRateLimit(response'[i])
            THEN \E i \in Invocations :
                   /\ PrimaryAnswered(i) /\ HasRateLimit(response'[i])
                   /\ get_rate_limit_info' = response'[i].json.f["rate_limit"]
            ELSE get_rate_limit_info' = get_rate_limit_info]_vars

(* C5 as amended: the snapshot starts empty, becomes the rate_limit field of
   every answer with status < 400 that has one, and changes at no other step
   (an answer with status >= 400 leaves it alone, whatever its body);
   get_rate_limit_info returns it. *)
C5_Snapshot ==
    /\ get_rate_limit_info = EmptyDict
    /\ [][IF \E i \in Invocations :
               /\ PrimaryAnswered(i)
               /\ Succeeded(response'[i]) /\ HasRateLimit(response'[i])
            THEN \E i \in Invocations :
                   /\ PrimaryAnswered(i)
                   /\ Succeeded(response'[i]) /\ HasRateLimit(response'[i])
                   /\ get_rate_limit_info' = response'[i].json.f["rate_limit"]
            ELSE get_rate_limit_info' = get_rate_limit_info]_vars

\* A snapshot taken from an earlier answer has survived an answer of status
\* >= 400 that carries other rate-limit data.
C5_Witness ==
    \E i \in Invocations :
      /\ Done(i)
      /\ HasRateLimit(response[i]) /\ ~Succeeded(response[i])
      /\ get_rate_limit_info # EmptyDict
      /\ get_rate_limit_info # response[i].json.f["rate_limit"]

IsFailure(res) ==
    /\ IsDict(res)
    /\ "success" \in DOMAIN res.f /\ res.f["success"] = PyBool(FALSE)
    /\ "error" \in DOMAIN res.f /\ res.f["error"].t = "str"

(* C6: no exception leaves request(): whatever the exchange and the primary
   call answer, the invocation ends by returning the decoded body of an
   answer with status < 400, or a failure record. *)
C6_NeverRaises ==
    \A i \in Invocations :
      /\ ~raised[i]
      /\ Done(i) =>
           IF Succeeded(response[i]) /\ ~JsonRaises(response[i])
             THEN result[i] = response[i].json
             ELSE IsFailure(result[i])

\* An invocation whose exchange raised in transport and whose primary call
\* answered an undecodable 200, or raised, has returned.
C6_Witness ==
    \E i \in Invocations :
      /\ Done(i)
      /\ exchange[i] # PyNone /\ exchange[i].kind # "response"
      /\ \/ response[i] = Ok_Undecodable
         \/ response[i].kind = "InvalidURL"

(* C7: an invocation issues one primary call and never a second, whatever
   the answer; with the exchange it makes at most two network calls. *)
C7_OnePrimaryCall ==
    \A i \in Invocations :
      /\ nExchange[i] <= 1
      /\ nPrimary[i] = (IF pc[i] \in {"primary", "done"} THEN 1 ELSE 0)
      /\ nExchange[i] + nPrimary[i] <= 2

\* An invocation has returned after an exchange and a primary call that
\* failed (429, 401, timeout or transport error).
C7_Witness ==
    \E i \in Invocations :
      /\ Done(i) /\ nExchange[i] = 1 /\ nPrimary[i] = 1
      /\ \/ response[i].kind \in {"ReadTimeout", "ConnectError"}
         \/ /\ IsResponse(response[i])
            /\ response[i].status_code \in {401, 429}

(* C8: a call made while a token is held whose expiry is later than now
   issues no exchange and leaves the token and its expiry as they are. *)
C8_TokenReuse ==
    [][\A i \in Invocations :
         (Called(i) /\ HeldFresh)
           => /\ nExchange'[i] = 0
              /\ pc'[i] = "primary"
              /\ jwt_token' = jwt_token
              /\ token_expires_at' = token_expires_at]_vars

\* A call went straight to its primary call on a token obtained by exchange
\* and still fresh.
C8_Witness ==
    \E i \in Invocations :
      /\ Exchangeable /\ HeldFresh
      /\ pc[i] = "primary" /\ nExchange[i] = 0
      /\ clock > 0

(* C9: with a non-empty key that does not start with fsk_, no call ever
   issues an exchange, the token is the key itself from the first call on,
   and the expiry stays absent. *)
C9_PassThrough ==
    PassThrough =>
      /\ token_expires_at = PyNone
      /\ \A i \in Invocations : nExchange[i] = 0 /\ pc[i] \notin {"exchange", "close"}
      /\ \/ jwt_token = PyStr(api_key)
         \/ jwt_token = PyNone /\ \A i \in Invocations : pc[i] = "idle"

\* A later call, an hour after the start, with a pass-through key that shares
\* the first characters of the prefix.
C9_Witness ==
    \E i \in Invocations :
      /\ PassThrough /\ api_key = <<"f", "s", "k">>
      /\ clock >= 60
      /\ pc[i] = "primary"
      /\ jwt_token = PyStr(api_key)

(* C10: when the exchange answers with a status other than 200, or fails in
   transport or by timeout, the token and its expiry stay as they were,
   nothing is raised, and the invocation goes on to issue its primary call
   with the credential held. *)
C10_ExchangeFailureSilent ==
    [][\A i \in Invocations :
         /\ (ExchangeAnswered(i) /\ ExchangeFailed(exchange'[i]))
              => /\ jwt_token' = jwt_token
                 /\ token_expires_at' = token_expires_at
                 /\ ~raised'[i]
                 /\ pc'[i] = "close"
         /\ (pc[i] = "close" /\ pc'[i] # "close")
              => /\ pc'[i] = "primary"
                 /\ nPrimary'[i] = 1
                 /\ headers'[i] = GetHeaders(jwt_token)
                 /\ jwt_token' = jwt_token]_vars

\* After a failed exchange the primary call is out, once with the stale
\* token still attached.
C10_Witness ==
    \E i \in Invocations :
      /\ pc[i] = "primary"
      /\ ExchangeFailed(exchange[i])
      /\ HeldStale
      /\ "Authorization" \in DOMAIN headers[i].f

-----------------------------------------------------------------------------
\* The primary call of i goes out at this step
PrimarySent(i) == pc[i] # "primary" /\ pc'[i] = "primary"

(* C11: the primary call carries `Authorization: Bearer <token>` exactly when
   a token is held at the moment its headers are built, and always carries
   the JSON Content-Type and Accept; a client without an api key never
   issues an exchange, never holds a token, and sends every primary call
   without Authorization. *)
C11_Authorization ==
    [][/\ \A i \in Invocations :
            PrimarySent(i) =>
              LET sent == headers'[i].f IN
              /\ sent["Content-Type"] = PyStr(S_ApplicationJson)
              /\ sent["Accept"] = PyStr(S_ApplicationJson)
              /\ ("Authorization" \in DOMAIN sent) <=> Truthy(jwt_token')
              /\ Truthy(jwt_token')
                   => sent["Authorization"] = PyStr(S_Bearer \o Format(jwt_token'))
              /\ api_key = <<>> => "Authorization" \notin DOMAIN sent
       /\ api_key = <<>>
            => /\ jwt_token' = PyNone
               /\ \A i \in Invocations : nExchange'[i] = 0 /\ pc'[i] # "exchange"
      ]_vars

\* A primary call is out with the token its own exchange granted.
C11_Witness ==
    \E i \in Invocations :
      /\ pc[i] = "primary"
      /\ GrantsToken(exchange[i])
      /\ headers[i].f["Authorization"]
           = PyStr(S_Bearer \o Format(AccessTokenOf(exchange[i].json)))

-----------------------------------------------------------------------------
\* The url of a call has been built
UrlBuilt == url # PyNone

(* C12: for every endpoint that already starts with /api the url is the
   origin followed by the endpoint as given, with no second /api, whether
   use_api_prefix is set or not; and a call with the path a prefixing call
   built leaves the url as it was. *)
C12_IdempotentPrefix ==
    [][/\ (UrlBuilt' /\ StartsWith(endpoint'.s, S_Api))
            => url' = PyStr(api_base' \o endpoint'.s)
       /\ (UrlBuilt /\ use_api_prefix /\ endpoint' = PyStr(PathOf(url)))
            => url' = url
      ]_vars

\* The url of a prefixing call whose endpoint carries the prefix already,
\* as the path built from /company/details does.
C12_Witness ==
    /\ UrlBuilt
    /\ use_api_prefix
    /\ endpoint = PyStr(S_Api \o Path_company_details)
    /\ url = PyStr(api_base \o S_Api \o Path_company_details)

EndsWithSlash(s) == s # <<>> /\ s[Len(s)] = "/"

\* The first segment of the path is exactly `api`
LeadingSegmentIsApi(path) ==
    \/ path = S_Api
    \/ StartsWith(path, S_Api \o <<"/">>)

(* C13: for every endpoint whose leading path segment is not `api`, /apikeys
   and the like included, the url is origin + "/api" + endpoint when
   use_api_prefix is set and origin + endpoint when it is not; the origin
   ends with no slash. *)
C13_PathConstruction ==
    /\ ~EndsWithSlash(api_base)
    /\ (UrlBuilt /\ ~LeadingSegmentIsApi(endpoint.s))
         => url = PyStr(api_base
                        \o (IF use_api_prefix THEN S_Api ELSE <<>>)
                        \o endpoint.s)

-----------------------------------------------------------------------------
\* The primary call was answered with a status >= 400 other than 429
GenericHttpError(o) ==
    IsResponse(o) /\ o.status_code >= 400 /\ o.status_code # 429

\* The body of the answer decoded to an object that has the field
HasField(o, field) == IsDict(o.json) /\ field \in DOMAIN o.json.f

S_ApiError404NotFound ==
    <<"A", "P", "I", " ", "E", "r", "r", "o", "r", " ", "(", "4", "0", "4",
    ")", ":", " ", "n", "o", "t", " ", "f", "o", "u", "n", "d">>

(* C14: an answer with a status >= 400 other than 429 yields the failure
   "API Error (<status>): <detail>", where <detail> is the `detail` field of
   the body when it has one, else its `message` field, else (also when the
   body is no object or does not decode) the raw text of the answer; a 404
   with body {"detail": "not found"} yields "API Error (404): not found". *)
C14_HttpError ==
    \A i \in Invocations :
      (Done(i) /\ GenericHttpError(response[i])) =>
        LET o == response[i]
            detail == IF HasField(o, "detail") THEN o.json.f["detail"]
                      ELSE IF HasField(o, "message") THEN o.json.f["message"]
                      ELSE o.text
        IN /\ result[i] = Dict([success |-> PyBool(FALSE),
                                error |-> PyStr(S_ApiError
                                                \o Digits(o.status_code)
                                                \o <<")", ":", " ">>
                                                \o Format(detail))])
           /\ o = R404_Detail => result[i].f["error"].s = S_ApiError404NotFound

\* A 400 whose body has both fields was answered with the `detail` one.
C14_Witness ==
    \E i \in Invocations :
      /\ Done(i)
      /\ response[i] = R400_Both
      /\ result[i].f["error"].s
           = S_ApiError \o <<"4", "0", "0", ")", ":", " ">>
             \o <<"b", "a", "d", " ", "c", "i", "n">>

-----------------------------------------------------------------------------
\* The primary call ended in a timeout
TimedOut(o) == o # PyNone /\ IsTimeoutException(o.kind)

(* C15: when the primary call times out, request() returns the failure with
   the fixed message "Request timed out. Try with a simpler query." (the
   timeout is told apart before the transport failure it also is), nothing
   is raised, and the api key, the token, its expiry and the rate-limit
   snapshot are as they were before the answer. *)
C15_Timeout ==
    [][\A i \in Invocations :
         (PrimaryAnswered(i) /\ TimedOut(response'[i])) =>
           /\ IsRequestError(response'[i].kind)
           /\ pc'[i] = "done"
           /\ ~raised'[i]
           /\ result'[i] = Dict([success |-> PyBool(FALSE),
                                 error |-> PyStr(S_TimedOut)])
           /\ UNCHANGED <<api_key, jwt_token, token_expires_at, rate_limit_info>>
      ]_vars

\* A call that holds a token and a snapshot has timed out.
C15_Witness ==
    \E i \in Invocations :
      /\ Done(i)
      /\ TimedOut(response[i])
      /\ result[i].f["error"] = PyStr(S_TimedOut)
      /\ Truthy(jwt_token)
      /\ rate_limit_info # EmptyDict

-----------------------------------------------------------------------------
\* The primary call was answered with a status below 400 and a body that decodes
Decoded(o) == Succeeded(o) /\ o.json # Undecodable

(* C16: an answer with a status below 400 whose body decodes is returned as
   decoded, a `data` wrapper left in place; when the body is an object with
   a top-level `rate_limit` field the snapshot becomes the value of that
   field. *)
C16_SuccessPassthrough ==
    [][\A i \in Invocations :
         (PrimaryAnswered(i) /\ Decoded(response'[i])) =>
           /\ pc'[i] = "done"
           /\ ~raised'[i]
           /\ result'[i] = response'[i].json
           /\ HasRateLimit(response'[i])
                => rate_limit_info' = response'[i].json.f["rate_limit"]
      ]_vars

\* A body with a `data` wrapper and a `rate_limit` field came back whole
\* and its `rate_limit` field is the snapshot.
C16_Witness ==
    \E i \in Invocations :
      /\ Done(i)
      /\ response[i] = Ok_RateLimit1
      /\ "data" \in DOMAIN result[i].f
      /\ result[i] = Ok_RateLimit1.json
      /\ rate_limit_info = Ok_RateLimit1.json.f["rate_limit"]

-----------------------------------------------------------------------------
\* The exchange of j was granted a token and j has not returned yet
ExchangeGranted(j) ==
    /\ pc[j] \in {"close", "primary", "done"}
    /\ nExchange[j] = 1
    /\ GrantsToken(exchange[j])

(* C17: invocations are not serialized: two of them that find the token
   stale or absent may both issue an exchange, each at most one, and when
   both are granted a token, the token and the expiry held afterwards are
   those of the exchange whose answer was processed last: its access token,
   and the time of its processing plus 50 minutes. *)
C17_LastWriteWins ==
    [][\A i \in Invocations :
         /\ nExchange'[i] <= 1
         /\ \A j \in Invocations \ {i} :
              (ExchangeAnswered(i) /\ GrantsToken(exchange'[i]) /\ ExchangeGranted(j))
                => /\ jwt_token' = AccessTokenOf(exchange'[i].json)
                   /\ token_expires_at' = DateTime(clock + RefreshMinutes)
      ]_vars

-----------------------------------------------------------------------------
\* format_response has returned
Formatted == fmt_output # PyNone

(* C18: for every error response that request() returns, format_response
   yields a text that begins with "Error: " followed by the message; when
   the response carries rate-limit info the text goes on to list the limit,
   the used count and the reset time of that info, and otherwise the text is
   the single line "Error: <message>". *)
C18_FailureProjection ==
    (Formatted /\ fmt_data \in RequestFailures) =>
      LET first == S_ErrorColon \o fmt_data.f["error"].s IN
      /\ fmt_output.t = "str"
      /\ StartsWith(fmt_output.s, first)
      /\ IF "rate_limit" \in DOMAIN fmt_data.f
           THEN LET info == fmt_data.f["rate_limit"].f IN
                fmt_output.s = first \o S_RateLimitInfo \o Format(info["limit"])
                               \o S_UsedToday \o Format(info["used"])
                               \o S_Resets \o Format(info["resets_at"])
           ELSE fmt_output.s = first

\* The 429 failure with the limits of its body was projected under a title.
C18_Witness ==
    /\ Formatted
    /\ fmt_data = RateLimited(R429_Snake)
    /\ "rate_limit" \in DOMAIN fmt_data.f
    /\ fmt_title = Title_Results
    /\ Contains(fmt_output.s, S_UsedToday \o Format(fmt_data.f["rate_limit"].f["used"]))

-----------------------------------------------------------------------------
\* data is an error response
IsErrorResponse(d) ==
    IsDict(d) /\ "success" \in DOMAIN d.f /\ d.f["success"] = PyBool(FALSE)

\* The list that data is, or that it wraps under `data`; None when it is
\* an error response or holds no list
ListOf(d) ==
    IF d.t = "list" THEN d
    ELSE IF IsDict(d) /\ ~IsErrorResponse(d) /\ "data" \in DOMAIN d.f
            /\ d.f["data"].t = "list" THEN d.f["data"]
    ELSE PyNone

\* The fields of a dict item that are shown: the first four, in order, among
\* those that are not null and are not named id or _id
ShownFields(item) ==
    LET Shown(key) == item.f[key] # PyNone /\ key # "id" /\ key # "_id"
        shown == SelectSeq(Keys(item), Shown)
    IN IF Len(shown) <= 4 THEN shown ELSE SubSeq(shown, 1, 4)

\* The numbered line of the n-th item
NumberedLine(n, item) ==
    Digits(n) \o <<".", " ">>
    \o (IF IsDict(item)
          THEN LET fields == ShownFields(item) IN
               Join(<<" ", "|", " ">>,
                    [j \in 1..Len(fields) |->
                       <<"*", "*">> \o KeyChars(fields[j]) \o <<"*", "*", ":", " ">>
                       \o Format(item.f[fields[j]])])
          ELSE Format(item))

S_P9_Projection ==
    <<"#", "#", " ", "R", "e", "s", "u", "l", "t", "s", "\n", "\n", "1", ".",
    " ", "*", "*", "c", "o", "m", "p", "a", "n", "y", "*", "*", ":", " ", "A",
    "c", "m", "e", " ", "|", " ", "*", "*", "C", "i", "t", "y", "*", "*", ":",
    " ", "M", "u", "m", "b", "a", "i">>
S_Wide_Line ==
    <<"2", ".", " ", "*", "*", "C", "I", "N", "*", "*", ":", " ", "X", " ",
    "|", " ", "*", "*", "s", "t", "a", "t", "u", "s", "*", "*", ":", " ", "A",
    "c", "t", "i", "v", "e", " ", "|", " ", "*", "*", "s", "t", "a", "t", "e",
    "*", "*", ":", " ", "M", "H", " ", "|", " ", "*", "*", "c", "a", "p", "i",
    "t", "a", "l", "*", "*", ":", " ", "5">>

(* C19: a list, or a value that is no error response and wraps a list under
   `data`, is projected as one numbered line per item, in the order of the
   list, a dict item showing its first four (or fewer) non-null fields
   other than id and _id as `**key**: value` joined by " | ", all under a
   heading line when a title is given; an empty list is projected as
   exactly "No results found." with or without a title. *)
C19_ListProjection ==
    (Formatted /\ ListOf(fmt_data) # PyNone) =>
      LET items == ListOf(fmt_data).q
          lines == [n \in 1..Len(items) |-> NumberedLine(n, items[n])]
          heading == IF fmt_title = <<>> THEN <<>>
                     ELSE <<"#", "#", " ">> \o fmt_title \o <<"\n", "\n">>
      IN /\ items = <<>> => fmt_output = PyStr(S_NoResultsFound)
         /\ items # <<>> => fmt_output = PyStr(heading \o Join(<<"\n">>, lines))
         /\ (fmt_data = Dict([data |-> PyList(<<Item_P9>>)])
               /\ fmt_title = Title_Results)
              => fmt_output = PyStr(S_P9_Projection)

\* A wrapped list of two dict items was projected under a title; the second
\* item has five fields to show and its line ends after the fourth.
C19_Witness ==
    /\ Formatted
    /\ fmt_data = Dict([data |-> PyList(<<Item_P9, Item_Wide>>)])
    /\ fmt_title = Title_Results
    /\ fmt_output = PyStr(S_P9_Projection \o <<"\n">> \o S_Wide_Line)

-----------------------------------------------------------------------------
\* data holds nothing: it is None, wraps None under `data`, or is an empty dict
HoldsNoData(d) ==
    \/ d = PyNone
    \/ d = Dict([data |-> PyNone])
    \/ d = EmptyDict

(* C20: a value that holds no data at all (None, a `data` wrapper around
   None, or an empty dict) is projected as "No data available.", with or
   without a title. *)
C20_NoDataSentinel ==
    (Formatted /\ HoldsNoData(fmt_data)) => fmt_output = PyStr(S_NoDataAvailable)

-----------------------------------------------------------------------------
\* The primary call of i was answered 429 and request() has returned
RateLimitedAnswer(i) ==
    Done(i) /\ IsResponse(response[i]) /\ response[i].status_code = 429

\* The failure with the generic rate-limit message and nothing else
GenericRateLimit ==
    Dict([success |-> PyBool(FALSE), error |-> PyStr(S_RateLimitGeneric)])

\* The info block made of the default values
DefaultRateLimit ==
    Dict([limit |-> PyInt(100), used |-> PyInt(100), resets_at |-> PyStr(S_EndOfDay)])

(* C24 as stated: a 429 answer is never classified as "API Error (429): ...";
   when its body decodes to an object the failure carries a rate-limit info
   block (made of the default values when the body has no `detail`), and
   only when the body does not decode is the failure the generic rate-limit
   message without info block. *)
C24_Classification429_Structured ==
    \A i \in Invocations :
      RateLimitedAnswer(i) =>
        LET body == response[i].json IN
        /\ IsFailure(result[i])
        /\ ~StartsWith(result[i].f["error"].s, S_ApiError)
        /\ IsDict(body) => "rate_limit" \in DOMAIN result[i].f
        /\ (IsDict(body) /\ "detail" \notin DOMAIN body.f)
             => result[i].f["rate_limit"] = DefaultRateLimit
        /\ body = Undecodable => result[i] = GenericRateLimit

\* The body of a 429 answer is an object whose `detail` is missing or an object
DetailReadable(body) ==
    /\ IsDict(body)
    /\ "detail" \in DOMAIN body.f => IsDict(body.f["detail"])

(* C24 as amended: a 429 answer is never classified as "API Error (429):
   ..."; when its body decodes to an object whose `detail` is missing or is
   an object the failure carries a rate-limit info block (made of the
   default values when `detail` is missing); in every other case (the body
   does not decode, is no object, or its `detail` is no object) the failure
   is the generic rate-limit message without info block. *)
C24_Classification429 ==
    \A i \in Invocations :
      RateLimitedAnswer(i) =>
        LET body == response[i].json IN
        /\ IsFailure(result[i])
        /\ ~StartsWith(result[i].f["error"].s, S_ApiError)
        /\ DetailReadable(body) => "rate_limit" \in DOMAIN result[i].f
        /\ (IsDict(body) /\ "detail" \notin DOMAIN body.f)
             => result[i].f["rate_limit"] = DefaultRateLimit
        /\ ~DetailReadable(body) => result[i] = GenericRateLimit

\* A 429 whose body is an object without `detail` was classified with the
\* default values.
C24_Witness ==
    \E i \in Invocations :
      /\ RateLimitedAnswer(i)
      /\ response[i] = R429_NoDetail
      /\ result[i].f["rate_limit"] = DefaultRateLimit

-----------------------------------------------------------------------------
\* The primary call failed in transport, and not by a timeout
TransportFailed(o) ==
    /\ o # PyNone /\ o.kind # "response"
    /\ IsRequestError(o.kind) /\ ~IsTimeoutException(o.kind)

\* The primary call ended in a fault that is no transport failure: another
\* exception, or an answer with status < 400 whose body does not decode
OtherFault(o) ==
    /\ o # PyNone
    /\ \/ o.kind # "response" /\ ~IsRequestError(o.kind)
       \/ Succeeded(o) /\ o.json = Undecodable

(* C25: a transport failure of the primary call that is no timeout yields
   the failure "Request failed: <description of the error>"; any other
   fault, an undecodable body of an answer with status < 400 included,
   yields the failure "Unexpected error: <description>"; in both cases
   request() returns a failure record and raises nothing. *)
C25_TransportAndUnexpected ==
    [][\A i \in Invocations :
         /\ (PrimaryAnswered(i) /\ TransportFailed(response'[i]))
              => /\ pc'[i] = "done" /\ ~raised'[i]
                 /\ result'[i] = Dict([success |-> PyBool(FALSE),
                                       error |-> PyStr(S_RequestFailed
                                                 \o response'[i].description)])
         /\ (PrimaryAnswered(i) /\ OtherFault(response'[i]))
              => /\ pc'[i] = "done" /\ ~raised'[i]
                 /\ IsFailure(result'[i])
                 /\ DOMAIN result'[i].f = {"success", "error"}
                 /\ StartsWith(result'[i].f["error"].s, S_UnexpectedError)
                 /\ Len(result'[i].f["error"].s) > Len(S_UnexpectedError)
      ]_vars

\* A refused connection was reported with its description.
C25_Witness ==
    \E i \in Invocations :
      /\ Done(i)
      /\ TransportFailed(response[i])
      /\ result[i].f["error"].s = S_RequestFailed \o <<"r", "e", "f", "u", "s", "e", "d">>

-----------------------------------------------------------------------------
\* A step of _ensure_jwt_token in the invocation i: the start of request()
\* up to its first await, or the processing of the auth/login answer
EnsureTokenStep(i) == Called(i) \/ ExchangeAnswered(i)

(* C26: the token and its expiry change only in a step of _ensure_jwt_token
   and the api key never changes; the rate-limit snapshot changes only when
   a primary call was answered with a status below 400 and a body that has
   rate-limit data; an invocation that returns a failure leaves the
   snapshot as it was, and no answer of a primary call, a 401 included,
   changes the token, its expiry or the api key. *)
C26_Frame ==
    [][/\ api_key' = api_key
       /\ (jwt_token' # jwt_token \/ token_expires_at' # token_expires_at)
            => \E i \in Invocations : EnsureTokenStep(i)
       /\ rate_limit_info' # rate_limit_info
            => \E i \in Invocations :
                 /\ PrimaryAnswered(i)
                 /\ Succeeded(response'[i]) /\ HasRateLimit(response'[i])
                 /\ rate_limit_info' = response'[i].json.f["rate_limit"]
       /\ \A i \in Invocations :
            PrimaryAnswered(i) =>
              /\ UNCHANGED <<jwt_token, token_expires_at>>
              /\ IsFailure(result'[i]) => UNCHANGED rate_limit_info
      ]_vars

\* With a token and a snapshot held, a 429 whose body has a rate_limit field
\* of its own was answered, and the snapshot is not that field.
C26_Witness ==
    \E i \in Invocations :
      /\ Done(i)
      /\ response[i] = R429_RateLimit
      /\ IsFailure(result[i])
      /\ Truthy(jwt_token)
      /\ rate_limit_info # EmptyDict
      /\ rate_limit_info # R429_RateLimit.json.f["rate_limit"]

-----------------------------------------------------------------------------
\* The Authorization header made of an access token that some answer of
\* the auth/login call grants
BearerOfAnExchange(header) ==
    \E o \in ExchangeOutcomes :
      /\ GrantsToken(o)
      /\ header = PyStr(S_Bearer \o Format(AccessTokenOf(o.json)))

(* C23: however the coroutines interleave at the auth/login call, at the
   close of its AsyncClient and at the primary call, an invocation whose
   own exchange was answered 200 with an access token sends its primary
   call with an Authorization header that carries a token granted by an
   exchange; the outcome of another invocation's exchange cannot make it
   send the call without that header. *)
C23_RaceKeepsAuthorization ==
    [][\A i \in Invocations :
         (PrimarySent(i) /\ GrantsToken(exchange[i])) =>
           /\ "Authorization" \in DOMAIN headers'[i].f
           /\ BearerOfAnExchange(headers'[i].f["Authorization"])
      ]_vars

-----------------------------------------------------------------------------
(* C22: a token granted by an exchange is reused by every call made less
   than 50 minutes later, whatever the time of that exchange, so that no
   50-minute window sees more than one exchange. Stated on the first 50
   minutes of the client: with an exchangeable key a token held then was
   granted by an exchange less than 50 minutes ago, and a call that finds
   it issues no exchange. *)
C22_TokenCached ==
    [][\A i \in Invocations :
         (Called(i) /\ Exchangeable /\ Truthy(jwt_token) /\ clock < RefreshMinutes)
           => (pc'[i] # "exchange" /\ nExchange'[i] = 0)
      ]_vars

-----------------------------------------------------------------------------
\* Every answer of the auth/login call processed at this step grants a token
ExchangeGrants ==
    \A i \in Invocations : ExchangeAnswered(i) => GrantsToken(exchange'[i])

\* A token is held and every primary call that is out carries Authorization
Authorized ==
    /\ Truthy(jwt_token)
    /\ \A i \in Invocations :
         pc[i] = "primary" => "Authorization" \in DOMAIN headers[i].f

(* C28: a failed exchange is not remembered: with an exchangeable key, if
   from some point on every answer of the auth/login call is a 200 with an
   access token and calls of request() keep arriving, then from some point
   on a token is held and every primary call carries Authorization. *)
C28_ExchangeRetried ==
    (/\ Exchangeable
     /\ <>[][ExchangeGrants]_vars
     /\ []<><<\E i \in Invocations : Called(i)>>_vars)
      => <>[]Authorized

\* Past the tenth minute a call that found no token was granted one by its
\* exchange, and its primary call is out with it.
C28_Witness ==
    \E i \in Invocations :
      /\ Exchangeable
      /\ pc[i] = "primary"
      /\ GrantsToken(exchange[i])
      /\ token_expires_at = PyNone
      /\ clock >= 10
      /\ Authorized

-----------------------------------------------------------------------------
\* server.py lines 411 and 428: `payment_option: "credits" or "paylater"`
DocumentedPaymentOptions == { PyStr(Chars("credits")), PyStr(Chars("paylater")) }

\* An item create_order accepts
ValidItem(item) ==
    /\ IsDict(item)
    /\ ~ InvalidItemType(Get(item, "type", PyNone))
    /\ Truthy(Get(item, "number", PyNone))
    /\ Float(Get(item, "price", PyInt(1))) # PyNone

\* A list of at least one item, each of them valid
ValidItems(items) ==
    /\ items.t = "list"
    /\ items.q # <<>>
    /\ \A n \in 1..Len(items.q) : ValidItem(items.q[n])

\* The answer of GET /watchlist/{id} holds a watchlist of at least one
\* entity, each with a type of order and a number
NonEmptyWatchlist(wl_result) ==
    /\ ~ IsFailureResult(wl_result)
    /\ LET items_data == WatchlistItems(wl_result)
       IN /\ items_data.t = "list"
          /\ items_data.q # <<>>
          /\ \A n \in 1..Len(items_data.q) :
                /\ IsDict(items_data.q[n])
                /\ ValidItem(WatchlistOrderItem(items_data.q[n]))

\* POST /orders/normal is among the calls issued
OrderCreationIssued ==
    \E n \in 1..Len(calls) :
       calls[n].method = "POST" /\ calls[n].endpoint = Chars("/orders/normal")

(* C21: create_order and watchlist_to_order accept the payment options of
   their tool documentation, "credits" and "paylater". Called with either
   of them, create_order with a list of valid items issues POST
   /orders/normal; watchlist_to_order returns no validation error but reads
   the watchlist, and when the watchlist it reads is not empty it issues
   POST /orders/normal. *)
C21_DocumentedPaymentOptions ==
    [][/\ (/\ Create_Order
           /\ args.payment_option \in DocumentedPaymentOptions
           /\ ValidItems(args.items))
          => OrderCreationIssued'
       /\ (/\ Watchlist_To_Order
           /\ args.payment_option \in DocumentedPaymentOptions)
          => (returned' = PyNone /\ tool_pc' = "watchlist")
       /\ \A wl_result \in Answers :
            (/\ Watchlist_To_Order_Read(wl_result)
             /\ args.payment_option \in DocumentedPaymentOptions
             /\ NonEmptyWatchlist(wl_result))
            => OrderCreationIssued'
      ]_vars

-----------------------------------------------------------------------------
\* A call that writes: the screener update, the watchlist creation and the
\* order creation; GET and the search POST /screener/search read
IsWrite(call) ==
    \/ call.method = "PUT"
    \/ call.method = "POST" /\ call.endpoint \in {Chars("/watchlist"), Chars("/orders/normal")}

WriteIssued == \E n \in 1..Len(calls) : IsWrite(calls[n])

\* The answer of a read call of a multi-step tool is processed at this step
ReadAnswered(answer) ==
    \/ Update_Screener_Read(answer)
    \/ Screener_To_Watchlist_Read(answer)
    \/ Screener_To_Order_Screener(answer)
    \/ Screener_To_Order_Read(answer)
    \/ Watchlist_To_Order_Read(answer)

\* The answer of a read call for items is processed at this step
ItemsAnswered(answer) ==
    \/ Screener_To_Watchlist_Read(answer)
    \/ Screener_To_Order_Read(answer)
    \/ Watchlist_To_Order_Read(answer)

\* The items the running tool finds in an answer
ItemsRead(answer) ==
    IF tool = "watchlist_to_order" THEN WatchlistItems(answer) ELSE ResultsOf(answer)

\* The CIN, DIN, GSTIN or number the running tool takes from an item
IdentifierRead(item) ==
    CASE tool = "watchlist_to_order" -> WatchlistOrderItem(item).f["number"]
      [] tool = "screener_to_watchlist" ->
           WatchlistEntity(frame.watchlist_type, item).f["identifier"]
      [] tool = "screener_to_order" -> ScreenerOrderItem(frame.type, item).f["number"]

\* The answer holds no list of items, or items none of which has the
\* identifier the write call needs
NoUsableItems(answer) ==
    LET items == ItemsRead(answer)
    IN \/ items.t # "list"
       \/ \A n \in 1..Len(items.q) :
            IsDict(items.q[n]) /\ ~ Truthy(IdentifierRead(items.q[n]))

\* The tool returned json.dumps({"error": ...})
ErrorReturned ==
    /\ returned.t = "json"
    /\ IsDict(returned.of)
    /\ DOMAIN returned.of.f = {"error"}

(* C27: in update_screener, screener_to_watchlist, screener_to_order and
   watchlist_to_order a write call (PUT, POST /watchlist, POST
   /orders/normal) is the last call of the invocation, issued when every
   read call has been answered. When the answer of a read call is a failure
   result the tool returns that failure and issues no write call; when it
   is no failure but yields no usable items the tool returns an error and
   issues no write call. *)
C27_AbortBeforeWrite ==
    [][/\ \A n \in 1..Len(calls') : IsWrite(calls'[n]) => n = Len(calls')
       /\ \A answer \in Answers :
            /\ (ReadAnswered(answer) /\ IsFailureResult(answer))
               => (~ WriteIssued' /\ returned' = JsonText(answer, FALSE))
            /\ (/\ ItemsAnswered(answer)
                /\ ~ IsFailureResult(answer)
                /\ NoUsableItems(answer))
               => (~ WriteIssued' /\ ErrorReturned')
      ]_vars

====
